---- MODULE Spec2Model ----
(***************************************************************************)
(* Model of the buffer diagnostics view of crates/diagnostics:             *)
(* BufferDiagnosticsEditor (buffer_diagnostics.rs) and the toolbar         *)
(* capability interface (toolbar_controls.rs).                             *)
(*                                                                         *)
(* The view runs on a single-threaded foreground executor: every handler   *)
(* and every stretch of a task between two await points is one action.     *)
(* A Task handle that is dropped (overwritten or set to None) cancels its  *)
(* task, so a task exists exactly as long as the slot that holds it.       *)
(***************************************************************************)
EXTENDS Integers, Sequences, FiniteSets, TLC

(***************************************************************************)
(* Bounds of the model.                                                    *)
(***************************************************************************)
\* The history counts the notifications of a burst up to MaxBurst.
MaxBurst == 2
\* Longest diagnostics list drawn for the change detector.
MaxLen == 2
\* Longest diagnostics list of the refreshes that filter groups.
MaxEntries == 3
\* Longest list of blocks built by single insertions.
MaxBlocks == 3
\* Number of calls of fetch_cargo_diagnostics in one behaviour.
MaxFetches == 2
\* Last row of the buffer text (rows are 0..MaxRow).
MaxRow == 8
\* The buffer diagnostics views open beside the modelled one.
MaxViews == 2
MaxHandOff == 3

(***************************************************************************)
(* Program constants.                                                      *)
(***************************************************************************)
\* editor::DEFAULT_MULTIBUFFER_CONTEXT, lines of context around a range.
DEFAULT_MULTIBUFFER_CONTEXT == 2
\* lsp::DiagnosticSeverity::ERROR, ::WARNING and ::INFORMATION (lower is
\* more severe).
SeverityError == 1
SeverityWarning == 2
SeverityInformation == SeverityWarning + 1

(***************************************************************************)
(* Text positions.  Every row of the buffer holds LineLen characters and a *)
(* newline; an Anchor is an abstract position that a buffer snapshot        *)
(* resolves to an absolute offset.                                         *)
(***************************************************************************)
LineLen == 1
MaxOffset == (MaxRow + 1) * (LineLen + 1) - 1
Anchors == 1..(MaxRow + 1)
Sources == {"A", "B"}

\* text::ToOffset for an Anchor: looked up in the snapshot.
ToOffset(anchor, snapshot) == snapshot.offsets[anchor]

\* Range<Anchor>::to_offset(snapshot).
RangeToOffset(range, snapshot) ==
    [start |-> ToOffset(range.start, snapshot), end |-> ToOffset(range.end, snapshot)]

\* text::ToPoint: offset to (row, column).
OffsetToPoint(offset) ==
    [row |-> offset \div (LineLen + 1), column |-> offset % (LineLen + 1)]

\* Range<Anchor>::to_point(snapshot).
RangeToPoint(range, snapshot) ==
    [start |-> OffsetToPoint(ToOffset(range.start, snapshot)),
     end |-> OffsetToPoint(ToOffset(range.end, snapshot))]

\* Ord for Point: -1 Less, 0 Equal, 1 Greater.
PointCmp(a, b) ==
    IF a.row < b.row THEN -1
    ELSE IF a.row > b.row THEN 1
    ELSE IF a.column < b.column THEN -1
    ELSE IF a.column > b.column THEN 1
    ELSE 0

\* Ordering::then.
Then(first, second) == IF first # 0 THEN first ELSE second

(***************************************************************************)
(* Diagnostics.  A DiagnosticEntry<Anchor> is                              *)
(*   [range, message, severity, is_primary, group_id].                     *)
(***************************************************************************)
Entry(start, end, message, severity, is_primary, group_id) ==
    [range |-> [start |-> start, end |-> end], message |-> message,
     severity |-> severity, is_primary |-> is_primary, group_id |-> group_id]

\* BufferSnapshot::max_point.
MaxPoint == [row |-> MaxRow, column |-> LineLen]

\* The anchors of the open buffer resolve to the start of consecutive rows.
BufferOffsets == [a \in Anchors |->
    IF (a - 1) * (LineLen + 1) <= MaxOffset THEN (a - 1) * (LineLen + 1) ELSE MaxOffset]

\* The diagnostics lists the language server publishes for the view's path,
\* each in the order of diagnostics_in_range (by range start).
ErrorEntry == Entry(8, 8, "e", SeverityError, TRUE, 0)
WarningEntry == Entry(1, 2, "w", SeverityWarning, TRUE, 1)
DiagLists == { <<>>, <<ErrorEntry>>, <<WarningEntry, ErrorEntry>> }

\* A variant of diagnostics_are_unchanged that compares the anchors of the
\* ranges instead of the offsets they resolve to.
diagnostics_are_unchanged_by_anchor(self_diagnostics, diagnostics, snapshot) ==
    IF Len(self_diagnostics) # Len(diagnostics) THEN FALSE
    ELSE \A i \in 1..Len(diagnostics) :
            /\ self_diagnostics[i].message = diagnostics[i].message
            /\ self_diagnostics[i].severity = diagnostics[i].severity
            /\ self_diagnostics[i].is_primary = diagnostics[i].is_primary
            /\ self_diagnostics[i].range = diagnostics[i].range

\* A variant of diagnostics_are_unchanged that leaves is_primary out.
diagnostics_are_unchanged_without_primary(self_diagnostics, diagnostics, snapshot) ==
    IF Len(self_diagnostics) # Len(diagnostics) THEN FALSE
    ELSE \A i \in 1..Len(diagnostics) :
            /\ self_diagnostics[i].message = diagnostics[i].message
            /\ self_diagnostics[i].severity = diagnostics[i].severity
            /\ RangeToOffset(self_diagnostics[i].range, snapshot)
                 = RangeToOffset(diagnostics[i].range, snapshot)

\* A variant of diagnostics_are_unchanged that compares the group_id too.
diagnostics_are_unchanged_with_group(self_diagnostics, diagnostics, snapshot) ==
    IF Len(self_diagnostics) # Len(diagnostics) THEN FALSE
    ELSE \A i \in 1..Len(diagnostics) :
            /\ self_diagnostics[i].message = diagnostics[i].message
            /\ self_diagnostics[i].severity = diagnostics[i].severity
            /\ self_diagnostics[i].is_primary = diagnostics[i].is_primary
            /\ self_diagnostics[i].group_id = diagnostics[i].group_id
            /\ RangeToOffset(self_diagnostics[i].range, snapshot)
                 = RangeToOffset(diagnostics[i].range, snapshot)

\* BufferDiagnosticsEditor::diagnostics_are_unchanged: equal length, then
\* pairwise equal message, severity, is_primary and offset range.
diagnostics_are_unchanged(self_diagnostics, diagnostics, snapshot) ==
    IF Len(self_diagnostics) # Len(diagnostics) THEN FALSE
    ELSE \A i \in 1..Len(diagnostics) :
            /\ self_diagnostics[i].message = diagnostics[i].message
            /\ self_diagnostics[i].severity = diagnostics[i].severity
            /\ self_diagnostics[i].is_primary = diagnostics[i].is_primary
            /\ RangeToOffset(self_diagnostics[i].range, snapshot)
                 = RangeToOffset(diagnostics[i].range, snapshot)

\* BufferDiagnosticsEditor::max_diagnostics_severity, then into_lsp.
max_diagnostics_severity(include_warnings) ==
    IF include_warnings THEN SeverityWarning ELSE SeverityError

\* Project::diagnostic_summary_for_path: the counts of the path's entries.
diagnostic_summary_for_path(entries) ==
    [error_count |-> Cardinality({i \in 1..Len(entries) : entries[i].severity = SeverityError}),
     warning_count |-> Cardinality({i \in 1..Len(entries) : entries[i].severity = SeverityWarning})]

(***************************************************************************)
(* update_excerpts: grouping, filtering and the two sorted insertions.     *)
(***************************************************************************)
\* slice::binary_search_by of the standard library, on the comparator's
\* results cmps[i] = f(slice[i]); returns the 0-based Ok or Err index.
RECURSIVE BinarySearchLoop(_, _, _)
BinarySearchLoop(cmps, base, size) ==
    IF size > 1
    THEN LET half == size \div 2
             mid == base + half
         IN BinarySearchLoop(cmps, IF cmps[mid + 1] = 1 THEN base ELSE mid, size - half)
    ELSE base

binary_search_by(cmps) ==
    IF Len(cmps) = 0 THEN 0
    ELSE LET base == BinarySearchLoop(cmps, 0, Len(cmps))
             cmp == cmps[base + 1]
         IN IF cmp = 0 THEN base ELSE base + (IF cmp = -1 THEN 1 ELSE 0)

\* A variant of the insertion that appends.
VecPush(vec, index, element) == Append(vec, element)

\* Vec::insert(index, element), index 0-based.
VecInsert(vec, index, element) ==
    SubSeq(vec, 1, index) \o <<element>> \o SubSeq(vec, index + 1, Len(vec))

\* A variant of the comparator with the tie-break .then(Ordering::Less).
BlockProbeCmpLess(probe, diagnostic_block) ==
    Then(PointCmp(probe.initial_range.start, diagnostic_block.initial_range.start),
         Then(PointCmp(probe.initial_range.end, diagnostic_block.initial_range.end), -1))

\* The comparator of the block insertion: (start, end), then Greater.
BlockProbeCmp(probe, diagnostic_block) ==
    Then(PointCmp(probe.initial_range.start, diagnostic_block.initial_range.start),
         Then(PointCmp(probe.initial_range.end, diagnostic_block.initial_range.end), 1))

InsertBlock(blocks, diagnostic_block) ==
    VecInsert(blocks,
              binary_search_by([i \in 1..Len(blocks) |-> BlockProbeCmp(blocks[i], diagnostic_block)]),
              diagnostic_block)

RECURSIVE InsertBlocks(_, _)
InsertBlocks(blocks, diagnostic_blocks) ==
    IF diagnostic_blocks = <<>> THEN blocks
    ELSE InsertBlocks(InsertBlock(blocks, Head(diagnostic_blocks)), Tail(diagnostic_blocks))

\* The entries of one group, in list order, with ranges resolved to points.
RECURSIVE GroupEntries(_, _, _)
GroupEntries(diagnostics, group_id, snapshot) ==
    IF diagnostics = <<>> THEN <<>>
    ELSE LET entry == Head(diagnostics)
             rest == GroupEntries(Tail(diagnostics), group_id, snapshot)
         IN IF entry.group_id = group_id
            THEN <<[range |-> RangeToPoint(entry.range, snapshot),
                    message |-> entry.message, severity |-> entry.severity,
                    is_primary |-> entry.is_primary, group_id |-> entry.group_id]>> \o rest
            ELSE rest

GroupIds(diagnostics) == {diagnostics[i].group_id : i \in 1..Len(diagnostics)}

\* The minimum over the severities of a group (the most severe entry).
MinSeverity(group) ==
    CHOOSE s \in {group[i].severity : i \in 1..Len(group)} :
        \A i \in 1..Len(group) : s <= group[i].severity

\* DiagnosticRenderer::diagnostic_blocks_for_group: the renderable blocks of
\* a group, one per entry, each with the entry's own range.
diagnostic_blocks_for_group(group) ==
    [i \in 1..Len(group) |->
        [initial_range |-> group[i].range, message |-> group[i].message,
         severity |-> group[i].severity, group_id |-> group[i].group_id]]

\* A variant of the group filter that looks at the first entry of the group
\* only.
GroupRetainedByFirst(group, max_severity) == ~(group[1].severity > max_severity)

\* The group filter: a group is skipped when the minimum of its severities
\* is greater than max_severity, and kept otherwise.
GroupRetained(group, max_severity) == ~(MinSeverity(group) > max_severity)

\* The groups of the loop that get past the filter, in iteration order.
RECURSIVE RetainedGroups(_, _, _, _)
RetainedGroups(order, diagnostics, snapshot, max_severity) ==
    IF order = <<>> THEN <<>>
    ELSE LET rest == RetainedGroups(Tail(order), diagnostics, snapshot, max_severity)
         IN IF GroupRetained(GroupEntries(diagnostics, Head(order), snapshot), max_severity)
            THEN <<Head(order)>> \o rest
            ELSE rest

\* The loop over the groups, in the iteration order of the hash map.
RECURSIVE BuildBlocks(_, _, _, _, _)
BuildBlocks(blocks, order, diagnostics, snapshot, max_severity) ==
    IF order = <<>> THEN blocks
    ELSE LET group == GroupEntries(diagnostics, Head(order), snapshot)
         IN IF ~GroupRetained(group, max_severity)
            THEN BuildBlocks(blocks, Tail(order), diagnostics, snapshot, max_severity)
            ELSE BuildBlocks(InsertBlocks(blocks, diagnostic_blocks_for_group(group)),
                             Tail(order), diagnostics, snapshot, max_severity)

\* All iteration orders of a set of group ids.
Orders(ids) ==
    {order \in [1..Cardinality(ids) -> ids] :
        \A i, j \in 1..Cardinality(ids) : i # j => order[i] # order[j]}

\* crate::context_range_for_entry: the range widened by `context` whole
\* lines, clipped to the buffer.
Min(a, b) == IF a < b THEN a ELSE b
context_range_for_entry(range, context) ==
    [start |-> [row |-> IF range.start.row > context THEN range.start.row - context ELSE 0,
                column |-> 0],
     end |-> [row |-> Min(range.end.row + context, MaxRow), column |-> LineLen]]

\* The comparator of the excerpt range insertion.
ExcerptProbeCmp(probe, excerpt_range, diagnostic_block) ==
    Then(PointCmp(probe.context.start, excerpt_range.start),
    Then(PointCmp(probe.context.end, excerpt_range.end),
    Then(PointCmp(probe.primary.start, diagnostic_block.initial_range.start),
    Then(PointCmp(probe.primary.end, diagnostic_block.initial_range.end), 1))))

\* The sorted insertion of the excerpt range of one block, excerpt_range
\* being what context_range_for_entry returned for the block.
InsertExcerptRange(excerpt_ranges, diagnostic_block, excerpt_range) ==
    VecInsert(excerpt_ranges,
              binary_search_by([i \in 1..Len(excerpt_ranges) |->
                  ExcerptProbeCmp(excerpt_ranges[i], excerpt_range, diagnostic_block)]),
              [context |-> excerpt_range, primary |-> diagnostic_block.initial_range])

RECURSIVE BuildExcerptRanges(_, _)
BuildExcerptRanges(excerpt_ranges, blocks) ==
    IF blocks = <<>> THEN excerpt_ranges
    ELSE BuildExcerptRanges(
            InsertExcerptRange(excerpt_ranges, Head(blocks),
                context_range_for_entry(Head(blocks).initial_range,
                                        DEFAULT_MULTIBUFFER_CONTEXT)),
            Tail(blocks))

\* MultiBuffer::set_excerpt_ranges_for_path, the excerpts it leaves for the
\* path: the context ranges in order, overlapping or adjacent ones merged.
RECURSIVE MergeExcerptRanges(_, _)
MergeExcerptRanges(merged, excerpt_ranges) ==
    IF excerpt_ranges = <<>> THEN merged
    ELSE LET next == Head(excerpt_ranges).context
             last == merged[Len(merged)]
         IN IF merged # <<>> /\ last.end.row + 1 >= next.start.row
            THEN MergeExcerptRanges(
                    [merged EXCEPT ![Len(merged)] =
                        [start |-> last.start,
                         end |-> IF PointCmp(next.end, last.end) = 1 THEN next.end ELSE last.end]],
                    Tail(excerpt_ranges))
            ELSE MergeExcerptRanges(Append(merged, next), Tail(excerpt_ranges))

\* ... and the anchor ranges it returns: one per excerpt range given, the
\* position of that range's primary range in the multibuffer.
AnchorRanges(excerpt_ranges) ==
    [i \in 1..Len(excerpt_ranges) |-> excerpt_ranges[i].primary]

\* BlockMap::insert_blocks: fresh ids for the inserted blocks, the lowest
\* ids that no displayed block holds.
RECURSIVE FreshIds(_, _, _)
FreshIds(used, count, from) ==
    IF count = 0 THEN <<>>
    ELSE IF from \in used THEN FreshIds(used, count, from + 1)
    ELSE <<from>> \o FreshIds(used, count - 1, from + 1)

\* anchor_ranges.zip(blocks): the shorter of the two decides the length.
ZipLen(anchor_ranges, new_blocks) == Min(Len(anchor_ranges), Len(new_blocks))

(***************************************************************************)
(* State.                                                                  *)
(***************************************************************************)
VARIABLES
    buffer,                   \* the project's buffer for the path: [diagnostics, offsets]
    cargo_sources,            \* what cargo_diagnostics_sources(cx) returns
    global_include_warnings,  \* the IncludeWarnings global
    focus,                    \* who holds input focus: "view", "editor" or "other"
    diagnostics,              \* self.diagnostics
    blocks,                   \* self.blocks, ids of the displayed blocks
    summary,                  \* self.summary
    include_warnings,         \* self.include_warnings
    update_excerpts_task,     \* self.update_excerpts_task
    diagnostic_summary_task,  \* self.diagnostic_summary_task
    cargo_diagnostics_fetch,  \* self.cargo_diagnostics_fetch
    multibuffer,              \* the excerpts of self.multibuffer
    editor,                   \* self.editor: display map blocks, selection, max severity
    hist,                     \* history of the run and the flychecks in flight
    workspace                 \* the workspace around the view: active item, the other
                              \* buffer diagnostics views, whether the global is set

vars == <<buffer, cargo_sources, global_include_warnings, focus, diagnostics, blocks,
          summary, include_warnings, update_excerpts_task, diagnostic_summary_task,
          cargo_diagnostics_fetch, multibuffer, editor, hist, workspace>>

\* Option::None for a task slot.
NoTask == [pc |-> "none"]

\* The task spawned by update_stale_excerpts, waiting on its timer.  Beside
\* the locals of the task it carries its history, which no code reads:
\*   burst    notifications that reached update_stale_excerpts while the task
\*            waited on its timer, the one that spawned it included (0 when
\*            something else spawned it), counted up to MaxBurst
\*   runs     calls of update_excerpts by the task
\*   changed  the buffer's diagnostics changed since the task was spawned
\*   compared the stored diagnostics the fetched ones were compared with
\*   retained the group ids that got past the severity filter, in the order
\*            of the loop
\*   focused  where the focus was when the display update ran
RefreshTask(notified) ==
    [pc |-> "timer", was_empty |-> FALSE,
     buffer_snapshot |-> [diagnostics |-> <<>>, offsets |-> BufferOffsets],
     max_severity |-> SeverityError, unchanged |-> FALSE, new_blocks |-> <<>>,
     excerpt_ranges |-> <<>>,
     burst |-> IF notified THEN 1 ELSE 0, runs |-> 0, changed |-> FALSE,
     compared |-> <<>>, retained |-> <<>>, focused |-> "other"]

\* The history of a task over one more notification for the path.
Aged(task, unfocused, diagnostics_change) ==
    IF task.pc = "none" THEN task
    ELSE [task EXCEPT
            !.burst = IF unfocused /\ task.pc = "timer" /\ @ > 0 /\ @ < MaxBurst
                      THEN @ + 1 ELSE @,
            !.changed = @ \/ diagnostics_change]

\* The locals of a task, without its history.
Locals(task) ==
    IF task.pc = "none" THEN task
    ELSE [pc |-> task.pc, was_empty |-> task.was_empty,
          buffer_snapshot |-> task.buffer_snapshot,
          max_severity |-> task.max_severity, unchanged |-> task.unchanged,
          new_blocks |-> task.new_blocks, excerpt_ranges |-> task.excerpt_ranges]

\* A variant of update_stale_excerpts without the early return: every call
\* drops the held task and spawns a new one.
update_stale_excerpts_replacing(task, notified) == RefreshTask(notified)

\* A variant of update_stale_excerpts that returns early only while the held
\* task waits on its timer, and replaces a task that is past it.
update_stale_excerpts_unless_waiting(task, notified) ==
    IF task.pc = "timer" THEN task ELSE RefreshTask(notified)

\* BufferDiagnosticsEditor::update_stale_excerpts: nothing when a task is
\* already there, otherwise a new task.
update_stale_excerpts(task, notified) ==
    IF task.pc # "none" THEN task ELSE RefreshTask(notified)

\* A variant of the focus test that looks at the view's own handle only.
ViewIsFocused == focus = "view"

\* contains_focused of the editor's handle or of the view's handle.
ContainsFocused == focus \in {"view", "editor"}

\* MultiBuffer::is_empty.
MultibufferIsEmpty == multibuffer = <<>>

(***************************************************************************)
(* BufferDiagnosticsEditor::new: the state after construction.             *)
(***************************************************************************)
\* BufferDiagnosticsEditor::fetch_cargo_diagnostics on the fetch state.
\* A variant of fetch_cargo_diagnostics without the early return on an empty
\* source list.
fetch_cargo_diagnostics_always_spawning(fetch, diagnostics_sources, id) ==
    [fetch_task |-> [pc |-> "spawned", id |-> id, pending |-> {}],
     cancel_task |-> NoTask,
     diagnostic_sources |-> diagnostics_sources]

\* A variant of fetch_cargo_diagnostics that leaves the cancel task in its
\* slot.
fetch_cargo_diagnostics_keeping_cancel(fetch, diagnostics_sources, id) ==
    IF diagnostics_sources = <<>>
    THEN [fetch_task |-> NoTask, cancel_task |-> fetch.cancel_task,
          diagnostic_sources |-> <<>>]
    ELSE [fetch_task |-> [pc |-> "spawned", id |-> id, pending |-> {}],
          cancel_task |-> fetch.cancel_task,
          diagnostic_sources |-> diagnostics_sources]

fetch_cargo_diagnostics(fetch, diagnostics_sources, id) ==
    IF diagnostics_sources = <<>>
    THEN [fetch_task |-> NoTask, cancel_task |-> NoTask, diagnostic_sources |-> <<>>]
    ELSE [fetch_task |-> [pc |-> "spawned", id |-> id, pending |-> {}],
          cancel_task |-> NoTask,
          diagnostic_sources |-> diagnostics_sources]

\* CargoDiagnosticsFetchState::default.
DefaultFetchState ==
    [fetch_task |-> NoTask, cancel_task |-> NoTask, diagnostic_sources |-> <<>>]

\* DiagnosticSummary::is_empty.
SummaryIsEmpty(s) == s.error_count = 0 /\ s.warning_count = 0

\* BufferDiagnosticsEditor::update_all_diagnostics: whether it refreshes
\* the excerpts (TRUE) or fetches the cargo diagnostics (FALSE).
UpdateAllRefreshes(first_launch, sources, current_summary) ==
    sources = <<>> \/ (first_launch /\ ~SummaryIsEmpty(current_summary))

\* The history at construction.
\*   defer:        "deferred" after a notification met a focused view,
\*                 "blurred" once focus has left after that, "no" again
\*                 after a notification that was not deferred or a toggle
\*   summary_runs: runs of update_diagnostic_summary since the latest
\*                 notification (up to MaxBurst)
\*   summary_burst: notifications that found the summary timer of their
\*                 predecessor still running, plus one (up to MaxBurst)
\*   fetches, flychecks, cancels: calls of fetch_cargo_diagnostics,
\*                 run_flycheck and cancel_flycheck
\*   in_flight:    the run_flycheck operations that have not completed, as
\*                 <<id of the fetch task that started it, source>>
\*   failed:       some run_flycheck has completed with an error
\*   stale:        some run_flycheck has completed after the fetch task that
\*                 started it had been replaced or stopped
\*   rendered:     the element tree of the latest frame
\*   elsewhere:    the handler has run for a DiagnosticsUpdated event of another
\*                 path
\* The project paths of the workspace; the modelled view shows ViewPath.
Paths == {"a", "b", "c"}
ViewPath == "a"

\* The workspace of a view on its own: the view is the active item, no other
\* buffer diagnostics view is open, the IncludeWarnings global is set.
DefaultWorkspace ==
    [active_item |-> [kind |-> "diagnostics", project_path |-> "a"],
     items |-> <<>>, global_is_set |-> TRUE]

InitHist ==
    [defer |-> "no", summary_runs |-> 0, summary_burst |-> 0, fetches |-> 0,
     flychecks |-> 0, cancels |-> 0, in_flight |-> {}, failed |-> FALSE,
     stale |-> FALSE, rendered |-> [child |-> "none", label |-> "", button |-> ""],
     elsewhere |-> FALSE]

InitView(sources) ==
    /\ cargo_sources = sources
    /\ buffer \in {[diagnostics |-> d, offsets |-> BufferOffsets] : d \in DiagLists}
    /\ global_include_warnings \in BOOLEAN
    /\ include_warnings = global_include_warnings
    /\ focus = "other"
    /\ diagnostics = <<>>
    /\ blocks = <<>>
    /\ summary = diagnostic_summary_for_path(buffer.diagnostics)
    /\ diagnostic_summary_task = [pc |-> "done", age |-> 0]
    /\ multibuffer = <<>>
    /\ editor = [display_blocks |-> {}, selection |-> <<>>,
                 max_severity |-> max_diagnostics_severity(include_warnings)]
    /\ IF UpdateAllRefreshes(TRUE, sources, summary)
       THEN /\ update_excerpts_task = RefreshTask(FALSE)
            /\ cargo_diagnostics_fetch = DefaultFetchState
            /\ hist = InitHist
            /\ workspace = DefaultWorkspace
       ELSE /\ update_excerpts_task = NoTask
            /\ cargo_diagnostics_fetch = fetch_cargo_diagnostics(DefaultFetchState, sources, 1)
            /\ hist = [InitHist EXCEPT !.fetches = 1]
            /\ workspace = DefaultWorkspace

Init == InitView(<<>>)

(***************************************************************************)
(* The project event subscription.                                         *)
(***************************************************************************)
\* A variant of the summary scheduling that keeps a task whose timer runs.
summary_task_kept(task) == IF task.pc = "timer" THEN task ELSE [pc |-> "timer", age |-> 0]

\* The summary task a notification puts into diagnostic_summary_task; the
\* task it replaces is dropped.  age: notifications since it was spawned.
summary_task_after(task) == [pc |-> "timer", age |-> 0]

\* The history of the summary task over one more notification.
SummaryAged(task) ==
    IF task.pc = "timer" /\ task.age < MaxBurst THEN [task EXCEPT !.age = @ + 1] ELSE task

\* A variant of the path test that takes every event as the view's own.
path_matches_any(path, project_path) == TRUE

\* The test of the DiagnosticsUpdated arm: *path == project_path.
path_matches(path, project_path) == path = project_path

\* The DiagnosticsUpdated arm of the project subscription, for an event of
\* `path`; changed: the event brought the view's buffer other diagnostics.
OnDiagnosticsUpdated(path, changed) ==
    LET aged == Aged(update_excerpts_task, ~ContainsFocused, changed)
        burst == IF diagnostic_summary_task.pc = "timer"
                 THEN Min(hist.summary_burst + 1, MaxBurst) ELSE 1
    IN
    IF path_matches(path, ViewPath)
    THEN /\ diagnostic_summary_task' = summary_task_after(SummaryAged(diagnostic_summary_task))
         /\ IF ContainsFocused
            THEN /\ update_excerpts_task' = aged
                 /\ hist' = [hist EXCEPT !.summary_runs = 0, !.summary_burst = burst,
                                      !.defer = "deferred"]
            ELSE /\ update_excerpts_task' = update_stale_excerpts(aged, TRUE)
                 /\ hist' = [hist EXCEPT !.summary_runs = 0, !.summary_burst = burst,
                                      !.defer = "no"]
    ELSE /\ hist' = [hist EXCEPT !.elsewhere = TRUE]
         /\ UNCHANGED <<diagnostic_summary_task, update_excerpts_task>>

\* Event::DiagnosticsUpdated for the view's own path: the project has new
\* diagnostics for the buffer, and the handler runs.
DiagnosticsUpdated(new_diagnostics) ==
    /\ buffer' = [buffer EXCEPT !.diagnostics = new_diagnostics]
    /\ OnDiagnosticsUpdated(ViewPath, new_diagnostics # buffer.diagnostics)
    /\ UNCHANGED <<workspace, cargo_sources, global_include_warnings, focus, diagnostics, blocks,
                   summary, include_warnings, cargo_diagnostics_fetch, multibuffer, editor>>

\* Event::DiagnosticsUpdated for another path: the diagnostics of the view's
\* buffer are as they were, and the handler runs.
DiagnosticsUpdatedElsewhere ==
    \E path \in Paths \ {ViewPath} :
        /\ OnDiagnosticsUpdated(path, FALSE)
        /\ UNCHANGED <<workspace, buffer, cargo_sources, global_include_warnings, focus,
                       diagnostics, blocks, summary, include_warnings,
                       cargo_diagnostics_fetch, multibuffer, editor>>

\* Event::DiskBasedDiagnosticsFinished.
DiskBasedDiagnosticsFinished ==
    /\ update_excerpts_task' = update_stale_excerpts(update_excerpts_task, FALSE)
    /\ hist' = hist
    /\ UNCHANGED <<workspace, buffer, cargo_sources, global_include_warnings, focus, diagnostics,
                   blocks, summary, include_warnings, diagnostic_summary_task,
                   cargo_diagnostics_fetch, multibuffer, editor>>

\* The summary task after its timer: update_diagnostic_summary.
SummaryTimerElapsed ==
    /\ diagnostic_summary_task.pc = "timer"
    /\ summary' = diagnostic_summary_for_path(buffer.diagnostics)
    /\ diagnostic_summary_task' = [diagnostic_summary_task EXCEPT !.pc = "done"]
    /\ hist' = [hist EXCEPT !.summary_runs = Min(@ + 1, MaxBurst)]
    /\ UNCHANGED <<workspace, buffer, cargo_sources, global_include_warnings, focus, diagnostics,
                   blocks, include_warnings, update_excerpts_task,
                   cargo_diagnostics_fetch, multibuffer, editor>>

(***************************************************************************)
(* The refresh task of update_stale_excerpts and update_excerpts.          *)
(***************************************************************************)
\* The timer of the refresh task elapses; the task asks for the buffer.
RefreshTimerElapsed ==
    /\ update_excerpts_task.pc = "timer"
    /\ update_excerpts_task' = [update_excerpts_task EXCEPT !.pc = "open"]
    /\ UNCHANGED <<workspace, buffer, cargo_sources, global_include_warnings, focus, diagnostics,
                   blocks, summary, include_warnings, diagnostic_summary_task,
                   cargo_diagnostics_fetch, multibuffer, editor, hist>>

\* What update_excerpts reads when it is called: the buffer's snapshot.
\* A variant in which update_excerpts sees the diagnostics the view stored.
SnapshotReadStored(buffer_now, stored_diagnostics) ==
    [buffer_now EXCEPT !.diagnostics = stored_diagnostics]

SnapshotRead(buffer_now, stored_diagnostics) == buffer_now

\* The stored diagnostics after open_buffer failed: the error is logged and
\* the refresh does nothing more.
\* A variant in which a failed open_buffer clears the stored diagnostics.
AbandonedRefreshCleared(stored_diagnostics) == <<>>

AbandonedRefresh(stored_diagnostics) == stored_diagnostics

\* open_buffer has answered.  On success the task calls update_excerpts,
\* which reads was_empty, the buffer's snapshot and the severity threshold and
\* spawns the inner task; on failure the task ends and stays in its slot.
OpenBufferDone(ok) ==
    /\ update_excerpts_task.pc = "open"
    /\ IF ok
       THEN /\ update_excerpts_task' =
                  [update_excerpts_task EXCEPT
                      !.pc = "spawned",
                      !.was_empty = MultibufferIsEmpty,
                      !.buffer_snapshot = SnapshotRead(buffer, diagnostics),
                      !.max_severity = max_diagnostics_severity(include_warnings),
                      !.runs = Min(@ + 1, MaxBurst)]
            /\ hist' = hist
            /\ diagnostics' = diagnostics
       ELSE /\ update_excerpts_task' = [update_excerpts_task EXCEPT !.pc = "failed"]
            /\ hist' = hist
            /\ diagnostics' = AbandonedRefresh(diagnostics)
    /\ UNCHANGED <<workspace, buffer, cargo_sources, global_include_warnings, focus,
                   blocks, summary, include_warnings, diagnostic_summary_task,
                   cargo_diagnostics_fetch, multibuffer, editor>>

\* A variant of the removal that takes nothing out of the display map.
remove_blocks_none(display_blocks, block_ids) == display_blocks

\* display_map.remove_blocks(self.blocks): the displayed blocks without those
\* whose id the view recorded at its previous display update.
remove_blocks(display_blocks, block_ids) ==
    {b \in display_blocks : \A i \in 1..Len(block_ids) : block_ids[i] # b.id}

\* A variant that selects the first anchor range at every display update.
selects_first_range_always(was_empty, anchor_ranges) == anchor_ranges # <<>>

\* if was_empty { if let Some(anchor_range) = anchor_ranges.first() { .. } }
selects_first_range(was_empty, anchor_ranges) == was_empty /\ anchor_ranges # <<>>

\* The display update at the end of update_excerpts (update_in).
ApplyDisplay(new_blocks, was_empty) ==
    LET excerpt_ranges == BuildExcerptRanges(<<>>, new_blocks)
        kept == remove_blocks(editor.display_blocks, blocks)
        anchor_ranges == AnchorRanges(excerpt_ranges)
        count == ZipLen(anchor_ranges, new_blocks)
        block_ids == FreshIds({b.id : b \in kept}, count, 1)
        select == selects_first_range(was_empty, anchor_ranges)
    IN /\ multibuffer' = MergeExcerptRanges(<<>>, excerpt_ranges)
       /\ editor' = [editor EXCEPT
             !.display_blocks = kept \cup
                 {[id |-> block_ids[i], placement |-> anchor_ranges[i].start,
                   block |-> new_blocks[i]] : i \in 1..count},
             !.selection = IF select THEN <<anchor_ranges[1].start>> ELSE @]
       /\ focus' = IF select /\ focus = "view" THEN "editor" ELSE focus
       /\ blocks' = block_ids

\* A variant of set_diagnostics that edits the stored list entry by entry:
\* it overwrites the entries the fetched list has and keeps the others.
set_diagnostics_in_place(self_diagnostics, fetched) ==
    [i \in 1..(IF Len(fetched) < Len(self_diagnostics)
               THEN Len(self_diagnostics) ELSE Len(fetched)) |->
        IF i <= Len(fetched) THEN fetched[i] ELSE self_diagnostics[i]]

\* BufferDiagnosticsEditor::set_diagnostics: self.diagnostics becomes a clone
\* of the fetched list.
set_diagnostics(self_diagnostics, fetched) == fetched

\* The inner task of update_excerpts, first stretch: fetch the diagnostics
\* of the snapshot, compare, store, group, filter and sort the blocks.
UpdateExcerptsCompare ==
    /\ update_excerpts_task.pc = "spawned"
    /\ LET task == update_excerpts_task
           fetched == task.buffer_snapshot.diagnostics
       IN IF diagnostics_are_unchanged(diagnostics, fetched, task.buffer_snapshot)
          THEN /\ update_excerpts_task' =
                     [task EXCEPT !.pc = "finish", !.unchanged = TRUE,
                                  !.compared = diagnostics]
               /\ UNCHANGED <<diagnostics, blocks, multibuffer, editor, focus>>
          ELSE /\ diagnostics' = set_diagnostics(diagnostics, fetched)
               /\ \E order \in Orders(GroupIds(fetched)) :
                    LET new_blocks == BuildBlocks(<<>>, order, fetched,
                                                  task.buffer_snapshot, task.max_severity)
                        retained == RetainedGroups(order, fetched, task.buffer_snapshot,
                                                   task.max_severity)
                    IN IF new_blocks = <<>>
                       THEN /\ ApplyDisplay(new_blocks, task.was_empty)
                            /\ update_excerpts_task' =
                                  [task EXCEPT !.pc = "finish", !.compared = diagnostics,
                                               !.retained = retained,
                                               !.focused = focus]
                       ELSE /\ update_excerpts_task' =
                                  [task EXCEPT !.pc = "context", !.new_blocks = new_blocks,
                                               !.compared = diagnostics,
                                               !.retained = retained]
                            /\ UNCHANGED <<blocks, multibuffer, editor, focus>>
    /\ UNCHANGED <<workspace, buffer, cargo_sources, global_include_warnings, summary,
                   include_warnings, diagnostic_summary_task, cargo_diagnostics_fetch, hist>>

\* The inner task after the context ranges were awaited: the display update.
UpdateExcerptsApply ==
    /\ update_excerpts_task.pc = "context"
    /\ ApplyDisplay(update_excerpts_task.new_blocks, update_excerpts_task.was_empty)
    /\ update_excerpts_task' =
          [update_excerpts_task EXCEPT
              !.pc = "finish", !.new_blocks = <<>>, !.focused = focus,
              !.excerpt_ranges = BuildExcerptRanges(<<>>, update_excerpts_task.new_blocks)]
    /\ UNCHANGED <<workspace, buffer, cargo_sources, global_include_warnings, diagnostics, summary,
                   include_warnings, diagnostic_summary_task, cargo_diagnostics_fetch, hist>>

\* The refresh task resumes after update_excerpts and clears its slot.
RefreshFinish ==
    /\ update_excerpts_task.pc = "finish"
    /\ update_excerpts_task' = NoTask
    /\ UNCHANGED <<workspace, buffer, cargo_sources, global_include_warnings, focus, diagnostics,
                   blocks, summary, include_warnings, diagnostic_summary_task,
                   cargo_diagnostics_fetch, multibuffer, editor, hist>>

(***************************************************************************)
(* Focus.                                                                  *)
(***************************************************************************)
\* BufferDiagnosticsEditor::focus_in, the on_focus_in handler: the focus it
\* leaves, given where the focus is and whether the multibuffer is empty.
focus_in(focused, is_empty) ==
    IF focused = "view" /\ ~is_empty THEN "editor" ELSE focused

\* A variant of the EditorEvent::Focused arm that gives the focus back to the
\* view whatever the multibuffer holds.
editor_focused_always(focused, is_empty) ==
    IF focused = "editor" THEN "view" ELSE focused

\* The EditorEvent::Focused arm of the editor subscription.
editor_focused(focused, is_empty) ==
    IF focused = "editor" /\ is_empty THEN "view" ELSE focused

\* The handler the arrival of the focus runs: focus_in when it arrived at the
\* view, the Focused arm when it arrived at the editor.
HandOffStep(focused, is_empty) ==
    IF focused = "view" THEN focus_in(focused, is_empty)
    ELSE IF focused = "editor" THEN editor_focused(focused, is_empty)
    ELSE focused

\* The focus after the handlers have run, each move of the focus running the
\* handler of the place it arrives at, for at most `fuel` moves; moves counts
\* them, settled tells that the last handler left the focus where it was.
RECURSIVE HandOff(_, _, _)
HandOff(focused, is_empty, fuel) ==
    LET next == HandOffStep(focused, is_empty)
    IN IF next = focused THEN [focus |-> focused, moves |-> 0, settled |-> TRUE]
       ELSE IF fuel = 0 THEN [focus |-> next, moves |-> 1, settled |-> FALSE]
       ELSE LET rest == HandOff(next, is_empty, fuel - 1)
            IN [rest EXCEPT !.moves = @ + 1]

\* The view takes focus; focus_in forwards it to the editor when the
\* multibuffer has excerpts.
FocusView ==
    /\ focus = "other"
    /\ focus' = HandOff("view", MultibufferIsEmpty, MaxHandOff).focus
    /\ UNCHANGED <<workspace, buffer, cargo_sources, global_include_warnings, diagnostics, blocks,
                   summary, include_warnings, update_excerpts_task, diagnostic_summary_task,
                   cargo_diagnostics_fetch, multibuffer, editor, hist>>

\* The embedded editor takes focus.  With an empty multibuffer the
\* EditorEvent::Focused handler gives focus back to the view, and the editor's
\* EditorEvent::Blurred handler then calls update_stale_excerpts.
FocusEditor ==
    /\ focus # "editor"
    /\ focus' = HandOff("editor", MultibufferIsEmpty, MaxHandOff).focus
    /\ IF focus' # "editor"
       THEN /\ update_excerpts_task' = update_stale_excerpts(update_excerpts_task, FALSE)
            /\ hist' = hist
       ELSE /\ UNCHANGED <<update_excerpts_task, hist>>
    /\ UNCHANGED <<workspace, buffer, cargo_sources, global_include_warnings, diagnostics, blocks,
                   summary, include_warnings, diagnostic_summary_task,
                   cargo_diagnostics_fetch, multibuffer, editor>>

\* Focus leaves the view and its editor: EditorEvent::Blurred and focus_out
\* both end in update_stale_excerpts.
FocusOut ==
    /\ focus # "other"
    /\ focus' = "other"
    /\ update_excerpts_task' = update_stale_excerpts(update_excerpts_task, FALSE)
    /\ hist' = [hist EXCEPT !.defer = IF @ = "deferred" THEN "blurred" ELSE @]
    /\ UNCHANGED <<workspace, buffer, cargo_sources, global_include_warnings, diagnostics, blocks,
                   summary, include_warnings, diagnostic_summary_task,
                   cargo_diagnostics_fetch, multibuffer, editor>>

(***************************************************************************)
(* The include-warnings toggle and its observer.                           *)
(***************************************************************************)
\* The observer of another open view: it copies the global into the view
\* and its editor.
observed(item, value) ==
    [item EXCEPT !.include_warnings = value,
                 !.max_severity = max_diagnostics_severity(value)]

\* cx.set_global(IncludeWarnings(value)) and the observers it notifies: the
\* one of this view copies the global into the view and its editor, clears
\* the stored diagnostics and calls update_all_diagnostics(false); so does
\* the observer of every other open view.
IncludeWarningsSet(value) ==
    /\ global_include_warnings' = value
    /\ workspace' = [workspace EXCEPT
          !.global_is_set = TRUE,
          !.items = [i \in DOMAIN @ |-> observed(@[i], value)]]
    /\ include_warnings' = global_include_warnings'
    /\ editor' = [editor EXCEPT !.max_severity = max_diagnostics_severity(include_warnings')]
    /\ diagnostics' = <<>>
    /\ IF UpdateAllRefreshes(FALSE, cargo_sources, summary)
       THEN /\ update_excerpts_task' = update_stale_excerpts(update_excerpts_task, FALSE)
            /\ hist' = [hist EXCEPT !.defer = "no"]
            /\ UNCHANGED cargo_diagnostics_fetch
       ELSE /\ hist.fetches < MaxFetches
            /\ cargo_diagnostics_fetch' =
                  fetch_cargo_diagnostics(cargo_diagnostics_fetch, cargo_sources,
                                          hist.fetches + 1)
            /\ hist' = [hist EXCEPT !.fetches = @ + 1, !.defer = "no"]
            /\ UNCHANGED update_excerpts_task
    /\ UNCHANGED <<buffer, cargo_sources, focus, blocks, summary,
                   diagnostic_summary_task, multibuffer>>

\* toggle_warnings of this view: the global becomes the negation of the
\* view's field.
ToggleWarnings == IncludeWarningsSet(~include_warnings)

\* The view's event handlers and task steps around the excerpt refresh.
Next ==
    \/ \E d \in DiagLists : DiagnosticsUpdated(d)
    \/ DiskBasedDiagnosticsFinished
    \/ SummaryTimerElapsed
    \/ RefreshTimerElapsed
    \/ \E ok \in BOOLEAN : OpenBufferDone(ok)
    \/ UpdateExcerptsCompare
    \/ UpdateExcerptsApply
    \/ RefreshFinish
    \/ FocusView
    \/ FocusEditor
    \/ FocusOut
    \/ ToggleWarnings

Spec == Init /\ [][Next]_vars

(***************************************************************************)
(* The cargo diagnostics fetch.                                            *)
(***************************************************************************)
\* The source lists fetch_cargo_diagnostics is called with.
SourceLists == {<<>>, <<"A">>, <<"A", "B">>}

SeqToSet(seq) == {seq[i] : i \in 1..Len(seq)}

\* A call of the public fetch_cargo_diagnostics.  The tasks it drops are
\* cancelled; the flychecks they started go on outside the view.
FetchCargoDiagnostics(diagnostics_sources) ==
    /\ hist.fetches < MaxFetches
    /\ cargo_diagnostics_fetch' =
          fetch_cargo_diagnostics(cargo_diagnostics_fetch, diagnostics_sources,
                                  hist.fetches + 1)
    /\ hist' = [hist EXCEPT !.fetches = @ + 1]
    /\ UNCHANGED <<workspace, buffer, cargo_sources, global_include_warnings, focus, diagnostics,
                   blocks, summary, include_warnings, update_excerpts_task,
                   diagnostic_summary_task, multibuffer, editor>>

\* The fetch task's first stretch: one run_flycheck per source, then join_all.
FetchTaskStart ==
    LET task == cargo_diagnostics_fetch.fetch_task
        sources == cargo_diagnostics_fetch.diagnostic_sources
    IN
    /\ task.pc = "spawned"
    /\ cargo_diagnostics_fetch' =
          [cargo_diagnostics_fetch EXCEPT
              !.fetch_task = [task EXCEPT !.pc = "joining", !.pending = SeqToSet(sources)]]
    /\ hist' = [hist EXCEPT
          !.flychecks = @ + Len(sources),
          !.in_flight = @ \cup {<<task.id, sources[i]>> : i \in 1..Len(sources)}]
    /\ UNCHANGED <<workspace, buffer, cargo_sources, global_include_warnings, focus, diagnostics,
                   blocks, summary, include_warnings, update_excerpts_task,
                   diagnostic_summary_task, multibuffer, editor>>

\* A variant in which the completion of a flycheck reaches whatever fetch
\* task is held, also one that did not start it.
flycheck_completed_any(fetch, id, source) ==
    IF fetch.fetch_task.pc = "joining"
    THEN [fetch EXCEPT !.fetch_task.pending = @ \ {source}]
    ELSE fetch

\* The completion of a run_flycheck reaches the task that awaits it; the
\* task of a dropped handle is cancelled and awaits nothing.
flycheck_completed(fetch, id, source) ==
    IF fetch.fetch_task.pc = "joining" /\ fetch.fetch_task.id = id
    THEN [fetch EXCEPT !.fetch_task.pending = @ \ {source}]
    ELSE fetch

\* The fetch task with this id is the one in the slot.
Held(fetch, id) ==
    IF fetch.fetch_task.pc = "none" THEN FALSE ELSE fetch.fetch_task.id = id

\* One run_flycheck completes, with or without an error; join_all collects
\* the result and the task discards it.
FlycheckDone(id, source, ok) ==
    /\ <<id, source>> \in hist.in_flight
    /\ cargo_diagnostics_fetch' = flycheck_completed(cargo_diagnostics_fetch, id, source)
    /\ hist' = [hist EXCEPT !.in_flight = @ \ {<<id, source>>},
                            !.failed = @ \/ ~ok,
                            !.stale = @ \/ ~Held(cargo_diagnostics_fetch, id)]
    /\ UNCHANGED <<workspace, buffer, cargo_sources, global_include_warnings, focus, diagnostics,
                   blocks, summary, include_warnings, update_excerpts_task,
                   diagnostic_summary_task, multibuffer, editor>>

\* A variant of the join that returns as soon as one flycheck has completed.
JoinAnyReturned(pending, sources) == pending # SeqToSet(sources)

\* join_all(fetch_tasks) returns once every task in it has completed.
JoinAllReturned(pending, sources) == pending = {}

\* join_all has returned: the fetch task clears its slot.
FetchTaskFinish ==
    /\ cargo_diagnostics_fetch.fetch_task.pc = "joining"
    /\ JoinAllReturned(cargo_diagnostics_fetch.fetch_task.pending,
                       cargo_diagnostics_fetch.diagnostic_sources)
    /\ cargo_diagnostics_fetch' = [cargo_diagnostics_fetch EXCEPT !.fetch_task = NoTask]
    /\ UNCHANGED <<workspace, buffer, cargo_sources, global_include_warnings, focus, diagnostics,
                   blocks, summary, include_warnings, update_excerpts_task,
                   diagnostic_summary_task, multibuffer, editor, hist>>

\* A variant of stop that leaves the fetch task to finish by itself.
stop_cargo_diagnostics_fetch_waiting(fetch) ==
    [fetch_task |-> fetch.fetch_task,
     cancel_task |-> [pc |-> "joining", pending |-> SeqToSet(fetch.diagnostic_sources)],
     diagnostic_sources |-> <<>>]

\* BufferDiagnosticsEditor::stop_cargo_diagnostics_fetch: the fetch state it
\* leaves; the cancel task awaits one cancel_flycheck per source.
stop_cargo_diagnostics_fetch(fetch) ==
    [fetch_task |-> NoTask,
     cancel_task |-> [pc |-> "joining", pending |-> SeqToSet(fetch.diagnostic_sources)],
     diagnostic_sources |-> <<>>]

\* A call of stop_cargo_diagnostics_fetch.
StopCargoDiagnosticsFetch ==
    /\ cargo_diagnostics_fetch' = stop_cargo_diagnostics_fetch(cargo_diagnostics_fetch)
    /\ hist' = [hist EXCEPT !.cancels = @ + Len(cargo_diagnostics_fetch.diagnostic_sources)]
    /\ UNCHANGED <<workspace, buffer, cargo_sources, global_include_warnings, focus, diagnostics,
                   blocks, summary, include_warnings, update_excerpts_task,
                   diagnostic_summary_task, multibuffer, editor>>

\* One cancel_flycheck of the cancel task completes.
CancelDone(source) ==
    /\ cargo_diagnostics_fetch.cancel_task.pc = "joining"
    /\ source \in cargo_diagnostics_fetch.cancel_task.pending
    /\ cargo_diagnostics_fetch' =
          [cargo_diagnostics_fetch EXCEPT !.cancel_task.pending = @ \ {source}]
    /\ UNCHANGED <<workspace, buffer, cargo_sources, global_include_warnings, focus, diagnostics,
                   blocks, summary, include_warnings, update_excerpts_task,
                   diagnostic_summary_task, multibuffer, editor, hist>>

\* The cancel task ends after its join_all; its handle stays in the slot.
CancelTaskFinish ==
    /\ cargo_diagnostics_fetch.cancel_task.pc = "joining"
    /\ cargo_diagnostics_fetch.cancel_task.pending = {}
    /\ cargo_diagnostics_fetch' =
          [cargo_diagnostics_fetch EXCEPT !.cancel_task = [pc |-> "done", pending |-> {}]]
    /\ UNCHANGED <<workspace, buffer, cargo_sources, global_include_warnings, focus, diagnostics,
                   blocks, summary, include_warnings, update_excerpts_task,
                   diagnostic_summary_task, multibuffer, editor, hist>>

\* The ids of the fetch tasks of one behaviour.
FetchIds == 1..MaxFetches

\* A view of a project with cargo diagnostics sources: the fetch coordinator
\* and the toggle that calls it.
InitFetch == InitView(<<"A", "B">>)

NextFetch ==
    \/ \E sources \in SourceLists : FetchCargoDiagnostics(sources)
    \/ FetchTaskStart
    \/ \E id \in FetchIds, source \in Sources, ok \in BOOLEAN : FlycheckDone(id, source, ok)
    \/ FetchTaskFinish
    \/ StopCargoDiagnosticsFetch
    \/ \E source \in Sources : CancelDone(source)
    \/ CancelTaskFinish
    \/ ToggleWarnings

SpecFetch == InitFetch /\ [][NextFetch]_vars

(***************************************************************************)
(* The change detector on its own: update_excerpts compares a fetched list *)
(* with a stored one, both drawn from the lists over DetectEntries.        *)
(***************************************************************************)
\* An entry and the entries that differ from it in one field; AnchorVariant
\* has other anchors, which DetectSame resolves to the offsets of BaseEntry
\* and BufferOffsets to other offsets.
BaseEntry == Entry(1, 2, "e", SeverityError, TRUE, 0)
MessageVariant == Entry(1, 2, "w", SeverityError, TRUE, 0)
SeverityVariant == Entry(1, 2, "e", SeverityWarning, TRUE, 0)
PrimaryVariant == Entry(1, 2, "e", SeverityError, FALSE, 0)
GroupVariant == Entry(1, 2, "e", SeverityError, TRUE, 1)
AnchorVariant == Entry(3, 4, "e", SeverityError, TRUE, 0)
DetectEntries ==
    {BaseEntry, MessageVariant, SeverityVariant, PrimaryVariant, GroupVariant,
     AnchorVariant}

\* Two snapshots of the buffer: in DetectSame anchors 3 and 4 resolve to the
\* offsets of anchors 1 and 2, in BufferOffsets they do not.
DetectSame == [a \in Anchors |-> IF a \in {1, 3} THEN 0 ELSE IF a \in {2, 4} THEN 2 ELSE 4]
DetectOffsets == {DetectSame, BufferOffsets}

\* The lists of at most MaxLen entries.
DetectLists == UNION {[1..n -> DetectEntries] : n \in 0..MaxLen}

\* The order of diagnostics_in_range: by start, then by end descending.
InRangeOrder(entries, snapshot) ==
    \A i \in 1..(Len(entries) - 1) :
        LET a == RangeToOffset(entries[i].range, snapshot)
            b == RangeToOffset(entries[i + 1].range, snapshot)
        IN a.start < b.start \/ (a.start = b.start /\ a.end >= b.end)

InitDetect ==
    /\ cargo_sources = <<>>
    /\ global_include_warnings = TRUE
    /\ include_warnings = TRUE
    /\ focus = "other"
    /\ blocks = <<>>
    /\ diagnostic_summary_task = [pc |-> "done", age |-> 0]
    /\ cargo_diagnostics_fetch = DefaultFetchState
    /\ multibuffer = <<>>
    /\ editor = [display_blocks |-> {}, selection |-> <<>>,
                 max_severity |-> max_diagnostics_severity(TRUE)]
    /\ hist = InitHist
    /\ workspace = DefaultWorkspace
    /\ \E offsets \in DetectOffsets :
         \E stored \in DetectLists, fetched \in DetectLists :
            /\ InRangeOrder(stored, [offsets |-> offsets])
            /\ InRangeOrder(fetched, [offsets |-> offsets])
            /\ buffer = [diagnostics |-> fetched, offsets |-> offsets]
            /\ diagnostics = stored
            /\ summary = diagnostic_summary_for_path(fetched)
            /\ update_excerpts_task =
                  [RefreshTask(FALSE) EXCEPT
                      !.pc = "spawned", !.was_empty = TRUE, !.buffer_snapshot = buffer,
                      !.max_severity = max_diagnostics_severity(TRUE), !.runs = 1]

\* The comparison, and the end of the refreshes that have nothing to display.
NextDetect ==
    \/ UpdateExcerptsCompare
    \/ RefreshFinish

SpecDetect == InitDetect /\ [][NextDetect]_vars

(***************************************************************************)
(* The two sorted insertions of update_excerpts on their own: blocks are   *)
(* inserted one by one in any order of their ranges, then one excerpt      *)
(* range per block, with any context range.                                *)
(***************************************************************************)
Point(row, column) == [row |-> row, column |-> column]

\* Ranges of blocks: two with the same start, one after them.
InsertableRanges ==
    {[start |-> Point(0, 0), end |-> Point(0, 1)],
     [start |-> Point(0, 0), end |-> Point(1, 0)],
     [start |-> Point(1, 0), end |-> Point(1, 1)]}

\* Context ranges that context_range_for_entry may return.
InsertableContexts ==
    {[start |-> Point(0, 0), end |-> Point(DEFAULT_MULTIBUFFER_CONTEXT, LineLen)],
     [start |-> Point(0, 0), end |-> Point(DEFAULT_MULTIBUFFER_CONTEXT + 1, LineLen)]}

\* The block handed to the insertion; its group_id tells the blocks of one
\* list apart: the k-th block inserted has group_id k - 1.
InsertedBlock(range) ==
    [initial_range |-> range, message |-> "e", severity |-> SeverityError,
     group_id |-> Len(update_excerpts_task.new_blocks)]

InitInsert ==
    /\ cargo_sources = <<>>
    /\ global_include_warnings = TRUE
    /\ include_warnings = TRUE
    /\ focus = "other"
    /\ buffer = [diagnostics |-> <<>>, offsets |-> BufferOffsets]
    /\ diagnostics = <<>>
    /\ blocks = <<>>
    /\ summary = diagnostic_summary_for_path(<<>>)
    /\ diagnostic_summary_task = [pc |-> "done", age |-> 0]
    /\ cargo_diagnostics_fetch = DefaultFetchState
    /\ multibuffer = <<>>
    /\ editor = [display_blocks |-> {}, selection |-> <<>>,
                 max_severity |-> max_diagnostics_severity(TRUE)]
    /\ hist = InitHist
    /\ workspace = DefaultWorkspace
    /\ update_excerpts_task =
          [RefreshTask(FALSE) EXCEPT
              !.pc = "spawned", !.was_empty = TRUE, !.buffer_snapshot = buffer,
              !.max_severity = max_diagnostics_severity(TRUE), !.runs = 1]

\* One pass of the loop `for diagnostic_block in diagnostic_blocks`.
InsertDiagnosticBlock(range) ==
    /\ update_excerpts_task.pc = "spawned"
    /\ Len(update_excerpts_task.new_blocks) < MaxBlocks
    /\ update_excerpts_task' =
          [update_excerpts_task EXCEPT
              !.new_blocks = InsertBlock(@, InsertedBlock(range))]
    /\ UNCHANGED <<workspace, buffer, cargo_sources, global_include_warnings, focus, diagnostics,
                   blocks, summary, include_warnings, diagnostic_summary_task,
                   cargo_diagnostics_fetch, multibuffer, editor, hist>>

\* The loop over the groups has ended.
BlocksBuilt ==
    /\ update_excerpts_task.pc = "spawned"
    /\ update_excerpts_task.new_blocks # <<>>
    /\ update_excerpts_task' = [update_excerpts_task EXCEPT !.pc = "context"]
    /\ UNCHANGED <<workspace, buffer, cargo_sources, global_include_warnings, focus, diagnostics,
                   blocks, summary, include_warnings, diagnostic_summary_task,
                   cargo_diagnostics_fetch, multibuffer, editor, hist>>

\* One pass of the loop `for diagnostic_block in blocks.iter()`, after
\* context_range_for_entry has returned excerpt_range.
InsertRange(excerpt_range) ==
    LET task == update_excerpts_task
    IN
    /\ task.pc = "context"
    /\ Len(task.excerpt_ranges) < Len(task.new_blocks)
    /\ update_excerpts_task' =
          [task EXCEPT
              !.excerpt_ranges =
                  InsertExcerptRange(@, task.new_blocks[Len(task.excerpt_ranges) + 1],
                                     excerpt_range)]
    /\ UNCHANGED <<workspace, buffer, cargo_sources, global_include_warnings, focus, diagnostics,
                   blocks, summary, include_warnings, diagnostic_summary_task,
                   cargo_diagnostics_fetch, multibuffer, editor, hist>>

NextInsert ==
    \/ \E range \in InsertableRanges : InsertDiagnosticBlock(range)
    \/ BlocksBuilt
    \/ \E excerpt_range \in InsertableContexts : InsertRange(excerpt_range)

SpecInsert == InitInsert /\ [][NextInsert]_vars

(***************************************************************************)
(* One refresh of an empty view over a list of diagnostics in groups: the  *)
(* severity filter and the display it leads to.                            *)
(***************************************************************************)
\* Entries at the start or near the end of the buffer, of three severities.
GroupedEntries ==
    {Entry(anchor, anchor, "e", severity, TRUE, group_id) :
        anchor \in {1, MaxRow},
        severity \in {SeverityError, SeverityWarning, SeverityInformation},
        group_id \in 0..(MaxEntries - 1)}

\* Group ids are labels: the lists use them in the order 0, 1, 2, ...
GroupsNumberedInOrder(entries) ==
    \A i \in 1..Len(entries) :
        \/ entries[i].group_id = 0
        \/ \E j \in 1..(i - 1) : entries[j].group_id + 1 >= entries[i].group_id

GroupedLists ==
    {entries \in UNION {[1..n -> GroupedEntries] : n \in 0..MaxEntries} :
        /\ GroupsNumberedInOrder(entries)
        /\ InRangeOrder(entries, [offsets |-> BufferOffsets])}

InitBlocks ==
    /\ cargo_sources = <<>>
    /\ global_include_warnings \in BOOLEAN
    /\ include_warnings = global_include_warnings
    /\ focus = "other"
    /\ buffer \in {[diagnostics |-> d, offsets |-> BufferOffsets] : d \in GroupedLists}
    /\ diagnostics = <<>>
    /\ blocks = <<>>
    /\ summary = diagnostic_summary_for_path(buffer.diagnostics)
    /\ diagnostic_summary_task = [pc |-> "done", age |-> 0]
    /\ cargo_diagnostics_fetch = DefaultFetchState
    /\ multibuffer = <<>>
    /\ editor = [display_blocks |-> {}, selection |-> <<>>,
                 max_severity |-> max_diagnostics_severity(include_warnings)]
    /\ hist = InitHist
    /\ workspace = DefaultWorkspace
    /\ update_excerpts_task =
          [RefreshTask(FALSE) EXCEPT
              !.pc = "spawned", !.was_empty = TRUE, !.buffer_snapshot = buffer,
              !.max_severity = max_diagnostics_severity(include_warnings), !.runs = 1]

NextBlocks ==
    \/ UpdateExcerptsCompare
    \/ UpdateExcerptsApply
    \/ RefreshFinish

SpecBlocks == InitBlocks /\ [][NextBlocks]_vars

(***************************************************************************)
(* Properties of the debounced refresh.                                    *)
(***************************************************************************)
\* A step that delivers DiagnosticsUpdated for the view's path.
Notified == \E d \in DiagLists : DiagnosticsUpdated(d)

\* A step in which the refresh task calls update_excerpts.
RefreshRuns == update_excerpts_task.pc = "open" /\ update_excerpts_task'.pc = "spawned"

\* The list the display was last built from, self.diagnostics, is the
\* buffer's current list.
StoredIsCurrent == diagnostics_are_unchanged(diagnostics, buffer.diagnostics, buffer)

\* C1: when two or more notifications for the path reach an unfocused view
\* before the refresh delay started by the first has elapsed, the task calls
\* update_excerpts at most once, a task that gets past update_excerpts has
\* called it exactly once, and the call reads the buffer's diagnostics as they
\* are at the call, after the last of the notifications.
C1_Debounce ==
    [][ /\ update_excerpts_task'.pc # "none" => update_excerpts_task'.runs <= 1
        /\ update_excerpts_task'.pc \in {"spawned", "context", "finish"}
             => update_excerpts_task'.runs = 1
        /\ (RefreshRuns /\ update_excerpts_task.burst >= 2)
             => /\ update_excerpts_task'.runs = 1
                /\ update_excerpts_task'.buffer_snapshot = buffer ]_vars

\* C1 witness: the one refresh of a burst of two has read diagnostics that
\* changed after the first notification.
C1_Witness ==
    /\ update_excerpts_task.pc = "spawned"
    /\ update_excerpts_task.burst >= 2
    /\ update_excerpts_task.changed
    /\ update_excerpts_task.runs = 1
    /\ update_excerpts_task.buffer_snapshot = buffer
    /\ buffer.diagnostics # <<>>

\* C2 as claimed: a notification that arrives while the refresh timer is
\* pending replaces the task, so the pending task is never older than the
\* latest notification of its burst.
C2_LastNotificationWins ==
    update_excerpts_task.pc # "none" => update_excerpts_task.burst <= 1

\* C2 as amended: a notification that arrives while a refresh task is held
\* leaves the task, its timer and its locals as they are; the task spawned by
\* the first notification is the one that runs.
C2_PendingTaskKept ==
    [][ (Notified /\ update_excerpts_task.pc # "none")
          => Locals(update_excerpts_task') = Locals(update_excerpts_task) ]_vars

\* C2 witness: the task of the first notification runs update_excerpts after
\* a later notification arrived during its timer.
C2_Witness ==
    /\ update_excerpts_task.pc = "spawned"
    /\ update_excerpts_task.burst >= 2

\* C3: every run of update_diagnostic_summary, and every write of
\* self.summary, is made by the task of the latest notification and is the
\* only run since that notification.
C3_SummaryLastWins ==
    [][ (summary' # summary
         \/ (diagnostic_summary_task.pc = "timer" /\ diagnostic_summary_task'.pc = "done"))
          => /\ diagnostic_summary_task.pc = "timer"
             /\ diagnostic_summary_task.age = 0
             /\ hist.summary_runs = 0
             /\ hist'.summary_runs = 1 ]_vars

\* C3 witness: after a burst of notifications that each found the summary
\* timer of the one before still running, the summary was written once.
C3_Witness ==
    /\ diagnostic_summary_task.pc = "done"
    /\ hist.summary_burst >= 2
    /\ hist.summary_runs = 1
    /\ summary.warning_count = 1

\* C4 as claimed: while the view or its editor holds focus, no step starts
\* an excerpt refresh.
C4_NoRefreshStartedWhileFocused ==
    [][ (focus \in {"view", "editor"} /\ focus' \in {"view", "editor"})
          => ~(update_excerpts_task.pc = "none" /\ update_excerpts_task'.pc # "none") ]_vars

\* C4 as amended: a DiagnosticsUpdated for the path that meets a focused
\* view or editor leaves update_excerpts_task as it is and still schedules
\* the summary task.
C4_NotificationDeferredWhileFocused ==
    [][ (Notified /\ focus \in {"view", "editor"})
          => /\ Locals(update_excerpts_task') = Locals(update_excerpts_task)
             /\ diagnostic_summary_task' = [pc |-> "timer", age |-> 0] ]_vars

\* C4 witness: a notification met a focused view: no refresh task, summary
\* task scheduled.
C4_Witness ==
    /\ hist.defer = "deferred"
    /\ focus \in {"view", "editor"}
    /\ update_excerpts_task.pc = "none"
    /\ diagnostic_summary_task.pc = "timer"
    /\ ~StoredIsCurrent

\* C5 as claimed, in the form a finite run refutes: once a notification was
\* deferred and focus has left, whenever no refresh task is left the view
\* was last built from the buffer's current diagnostics.
C5_DeferredRefreshApplied ==
    (hist.defer = "blurred" /\ focus = "other" /\ update_excerpts_task.pc = "none")
        => StoredIsCurrent

\* C6: the steps of a refresh task whose open_buffer fails leave the stored
\* diagnostics, the excerpts, the block list, the displayed blocks and the
\* summary as they were.
C6_OpenFailureKeepsState ==
    [][ (update_excerpts_task.pc \in {"timer", "open"}
         /\ update_excerpts_task'.pc \in {"open", "failed"}
         /\ update_excerpts_task'.pc # update_excerpts_task.pc)
          => /\ diagnostics' = diagnostics
             /\ multibuffer' = multibuffer
             /\ blocks' = blocks
             /\ editor' = editor
             /\ summary' = summary ]_vars

\* C6 witness: a refresh failed while the view shows diagnostics.
C6_Witness ==
    /\ update_excerpts_task.pc = "failed"
    /\ diagnostics # <<>>
    /\ multibuffer # <<>>
    /\ blocks # <<>>

\* C7 as claimed: a notification for the path that reaches an unfocused view
\* after a refresh failed starts a new refresh.
C7_RetriggerAfterFailure ==
    [][ (Notified /\ focus = "other" /\ update_excerpts_task.pc = "failed")
          => update_excerpts_task'.pc = "timer" ]_vars

(***************************************************************************)
(* Properties of the change detector.                                      *)
(***************************************************************************)
\* What the claims compare: (message, severity, is_primary, offset range).
Tuple(entry, snapshot) ==
    <<entry.message, entry.severity, entry.is_primary,
      snapshot.offsets[entry.range.start], snapshot.offsets[entry.range.end]>>

TupleSeq(entries, snapshot) == [i \in 1..Len(entries) |-> Tuple(entries[i], snapshot)]

\* The stored list and the list the inner task fetched agree on every tuple.
TuplesAgree ==
    TupleSeq(diagnostics, update_excerpts_task.buffer_snapshot)
      = TupleSeq(update_excerpts_task.buffer_snapshot.diagnostics,
                 update_excerpts_task.buffer_snapshot)

\* The inner task of update_excerpts makes its comparison.
Compares == update_excerpts_task.pc = "spawned" /\ update_excerpts_task'.pc # "spawned"

\* C8: when the stored list and the fetched list have the same length and
\* agree pairwise, in order, on message, severity, is_primary and the offsets
\* of the range, the comparison reports unchanged and the refresh leaves the
\* stored list and the display alone, whatever the anchors of the ranges.
C8_UnchangedWhenTuplesAgree ==
    [][ (Compares /\ TuplesAgree)
          => /\ update_excerpts_task'.unchanged
             /\ update_excerpts_task'.pc = "finish"
             /\ diagnostics' = diagnostics
             /\ multibuffer' = multibuffer
             /\ blocks' = blocks
             /\ editor' = editor ]_vars

\* C8 witness: lists whose ranges have different anchors were found unchanged.
C8_Witness ==
    /\ update_excerpts_task.pc = "finish"
    /\ update_excerpts_task.unchanged
    /\ Len(diagnostics) = MaxLen
    /\ \E i \in 1..Len(diagnostics) :
          diagnostics[i].range # update_excerpts_task.buffer_snapshot.diagnostics[i].range

\* C9: when the stored list and the fetched list differ in length, or at
\* some position in message, severity, is_primary or the offsets of the
\* range, the comparison reports changed and the fetched list is stored; a
\* reordering that moves a different tuple to some position is a change.
C9_ChangedWhenTuplesDiffer ==
    [][ (Compares /\ ~TuplesAgree)
          => /\ ~update_excerpts_task'.unchanged
             /\ diagnostics' = update_excerpts_task.buffer_snapshot.diagnostics ]_vars

\* The tuples of one list are the tuples of the other, in another order.
IsReordering(stored, fetched, snapshot) ==
    /\ Len(stored) = Len(fetched)
    /\ TupleSeq(stored, snapshot) # TupleSeq(fetched, snapshot)
    /\ \E perm \in [1..Len(stored) -> 1..Len(stored)] :
          /\ \A i, j \in 1..Len(stored) : perm[i] = perm[j] => i = j
          /\ \A i \in 1..Len(stored) :
                Tuple(stored[i], snapshot) = Tuple(fetched[perm[i]], snapshot)

\* C9 witness: a reordering of the stored list was found changed.
C9_Witness ==
    /\ update_excerpts_task.pc # "spawned"
    /\ ~update_excerpts_task.unchanged
    /\ IsReordering(update_excerpts_task.compared,
                    update_excerpts_task.buffer_snapshot.diagnostics,
                    update_excerpts_task.buffer_snapshot)

(***************************************************************************)
(* Properties of the cargo diagnostics fetch.                              *)
(***************************************************************************)
\* C10: a call of fetch_cargo_diagnostics with an empty list leaves
\* fetch_task and cancel_task unset and diagnostic_sources empty, whatever
\* they were, and starts no run_flycheck.
C10_FetchEmptySources ==
    [][ FetchCargoDiagnostics(<<>>)
          => /\ cargo_diagnostics_fetch'.fetch_task = NoTask
             /\ cargo_diagnostics_fetch'.cancel_task = NoTask
             /\ cargo_diagnostics_fetch'.diagnostic_sources = <<>>
             /\ hist'.flychecks = hist.flychecks ]_vars

\* C10 witness: after flychecks have run, the fetch state is the one only a
\* fetch with an empty list leaves behind.
C10_Witness ==
    /\ hist.flychecks >= 1
    /\ hist.fetches >= 2
    /\ cargo_diagnostics_fetch = DefaultFetchState

\* The fetch task ends by itself: its slot is cleared while the sources and
\* the cancel task stay (a fetch or a stop changes one of them).
FetchTaskCompletes ==
    /\ cargo_diagnostics_fetch.fetch_task.pc = "joining"
    /\ cargo_diagnostics_fetch'.fetch_task = NoTask
    /\ cargo_diagnostics_fetch'.diagnostic_sources = cargo_diagnostics_fetch.diagnostic_sources
    /\ cargo_diagnostics_fetch'.cancel_task = cargo_diagnostics_fetch.cancel_task

\* C11: the fetch task of a non-empty source list starts one run_flycheck
\* per source in one step, so that all are in flight together, and the task
\* clears fetch_task by itself only when none of its flychecks is in flight
\* any more, in whatever order and with whatever result they completed.
C11_FetchJoinsAll ==
    [][ /\ FetchTaskStart
          => LET task == cargo_diagnostics_fetch.fetch_task
                 sources == cargo_diagnostics_fetch.diagnostic_sources
             IN /\ sources # <<>>
                /\ hist'.flychecks = hist.flychecks + Len(sources)
                /\ \A i \in 1..Len(sources) : <<task.id, sources[i]>> \in hist'.in_flight
                /\ cargo_diagnostics_fetch'.fetch_task.pc = "joining"
        /\ FetchTaskCompletes
          => \A source \in Sources :
                <<cargo_diagnostics_fetch.fetch_task.id, source>> \notin hist.in_flight ]_vars

\* C11 witness: a fetch of two sources has ended by itself after both
\* flychecks completed, one of them with an error.
C11_Witness ==
    /\ cargo_diagnostics_fetch.fetch_task = NoTask
    /\ cargo_diagnostics_fetch.diagnostic_sources = <<"A", "B">>
    /\ hist.flychecks >= 2
    /\ hist.failed
    /\ hist.in_flight = {}

\* A step that calls fetch_cargo_diagnostics: the public call or the
\* include-warnings observer.
FetchCalled == hist'.fetches = hist.fetches + 1

\* C12: the view has one slot for a fetch task and one for a cancel task;
\* every call of fetch_cargo_diagnostics empties both before it spawns, so
\* that the cancel task is gone and the fetch task, if there is one, is the
\* one this call spawned with nothing awaited yet; a held fetch task is
\* always the task of the latest call.
C12_FetchDiscardsHandles ==
    [][ /\ FetchCalled
          => /\ cargo_diagnostics_fetch'.cancel_task = NoTask
             /\ \/ cargo_diagnostics_fetch'.fetch_task = NoTask
                \/ cargo_diagnostics_fetch'.fetch_task =
                      [pc |-> "spawned", id |-> hist'.fetches, pending |-> {}]
        /\ cargo_diagnostics_fetch'.fetch_task # NoTask
          => cargo_diagnostics_fetch'.fetch_task.id = hist'.fetches ]_vars

\* C12 witness: a fetch has replaced a fetch task whose flychecks were in
\* flight and has discarded the cancel task of a stop.
C12_Witness ==
    /\ cargo_diagnostics_fetch.fetch_task.pc = "spawned"
    /\ cargo_diagnostics_fetch.cancel_task = NoTask
    /\ hist.cancels >= 1
    /\ \E op \in hist.in_flight : op[1] < cargo_diagnostics_fetch.fetch_task.id

\* C13: when a flycheck completes whose fetch task has been replaced by a
\* later fetch or dropped by a stop, the fetch state stays as it is: the
\* fetch task in the slot and what it awaits are not touched.
C13_SupersededFetchInert ==
    [][ \A op \in hist.in_flight \ hist'.in_flight :
           ~Held(cargo_diagnostics_fetch, op[1])
             => cargo_diagnostics_fetch' = cargo_diagnostics_fetch ]_vars

\* C13 witness: the flychecks of a replaced fetch task have completed while
\* the task that replaced it still awaits both of its own.
C13_Witness ==
    /\ hist.stale
    /\ cargo_diagnostics_fetch.fetch_task.pc = "joining"
    /\ cargo_diagnostics_fetch.fetch_task.pending = {"A", "B"}
    /\ \A op \in hist.in_flight : op[1] = cargo_diagnostics_fetch.fetch_task.id

\* C14: a call of stop_cargo_diagnostics_fetch issues one cancel_flycheck
\* per tracked source, empties the tracked sources, unsets fetch_task in the
\* same step whatever flychecks are in flight, and leaves one cancel task
\* that still awaits every one of the cancels.
C14_StopCancelsAll ==
    [][ StopCargoDiagnosticsFetch
          => LET sources == cargo_diagnostics_fetch.diagnostic_sources
             IN /\ hist'.cancels = hist.cancels + Len(sources)
                /\ cargo_diagnostics_fetch'.diagnostic_sources = <<>>
                /\ cargo_diagnostics_fetch'.fetch_task = NoTask
                /\ cargo_diagnostics_fetch'.cancel_task =
                      [pc |-> "joining", pending |-> SeqToSet(sources)]
                /\ hist'.in_flight = hist.in_flight ]_vars

\* C14 witness: a fetch of two sources was stopped while its flychecks were
\* in flight; the cancel task awaits both cancels.
C14_Witness ==
    /\ cargo_diagnostics_fetch.fetch_task = NoTask
    /\ cargo_diagnostics_fetch.diagnostic_sources = <<>>
    /\ cargo_diagnostics_fetch.cancel_task = [pc |-> "joining", pending |-> {"A", "B"}]
    /\ hist.cancels = 2
    /\ Cardinality(hist.in_flight) = 2

(***************************************************************************)
(* Properties of the sorted insertions.                                    *)
(***************************************************************************)
\* A point as one number, and the sort keys of a block and of an excerpt
\* range as one number each.
PointKey(point) == point.row * (LineLen + 1) + point.column

KeyBase == MaxOffset + 1

BlockKey(diagnostic_block) ==
    PointKey(diagnostic_block.initial_range.start) * KeyBase
      + PointKey(diagnostic_block.initial_range.end)

ExcerptKey(excerpt_range) ==
    ((PointKey(excerpt_range.context.start) * KeyBase
        + PointKey(excerpt_range.context.end)) * KeyBase
        + PointKey(excerpt_range.primary.start)) * KeyBase
        + PointKey(excerpt_range.primary.end)

\* C16 as claimed: of two blocks with equal (start, end) in the list, the
\* one inserted earlier comes first.
C16_FirstSeenOrder ==
    LET new_blocks == update_excerpts_task.new_blocks
    IN \A i, j \in 1..Len(new_blocks) :
          (i < j /\ BlockKey(new_blocks[i]) = BlockKey(new_blocks[j]))
            => new_blocks[i].group_id < new_blocks[j].group_id

\* C16 as amended: an inserted block is placed before every block of the
\* list with the same (start, end), so that of two blocks with equal keys
\* the one inserted later comes first; and the index at which an excerpt
\* range is inserted is the index of the first range of the list whose key
\* is not less than its own.
C16_LastSeenFirst ==
    [][ /\ LET new_blocks == update_excerpts_task'.new_blocks
           IN \A i, j \in 1..Len(new_blocks) :
                 (i < j /\ BlockKey(new_blocks[i]) = BlockKey(new_blocks[j]))
                   => new_blocks[i].group_id > new_blocks[j].group_id
        /\ \A excerpt_range \in InsertableContexts :
              InsertRange(excerpt_range)
                => LET ranges == update_excerpts_task.excerpt_ranges
                       diagnostic_block == update_excerpts_task.new_blocks[Len(ranges) + 1]
                       inserted == [context |-> excerpt_range,
                                    primary |-> diagnostic_block.initial_range]
                       less == {i \in 1..Len(ranges) :
                                   ExcerptKey(ranges[i]) < ExcerptKey(inserted)}
                   IN update_excerpts_task'.excerpt_ranges
                        = VecInsert(ranges, Cardinality(less), inserted) ]_vars

\* C16 witness: three blocks with the same key were inserted, and excerpt
\* ranges with the same key.
C16_Witness ==
    LET new_blocks == update_excerpts_task.new_blocks
        ranges == update_excerpts_task.excerpt_ranges
    IN /\ Len(new_blocks) = MaxBlocks
       /\ \A i \in 1..Len(new_blocks) : BlockKey(new_blocks[i]) = BlockKey(new_blocks[1])
       /\ Len(ranges) >= 2
       /\ ExcerptKey(ranges[1]) = ExcerptKey(ranges[2])

\* C17: whatever the order in which the blocks are inserted, the block list
\* is non-decreasing by (start, end), and the excerpt range list is
\* non-decreasing by (context.start, context.end, primary.start, primary.end).
C17_SortedOutput ==
    LET new_blocks == update_excerpts_task.new_blocks
        ranges == update_excerpts_task.excerpt_ranges
    IN /\ \A i \in 1..(Len(new_blocks) - 1) :
             BlockKey(new_blocks[i]) <= BlockKey(new_blocks[i + 1])
       /\ \A i \in 1..(Len(ranges) - 1) :
             ExcerptKey(ranges[i]) <= ExcerptKey(ranges[i + 1])

\* C17 witness: blocks inserted in descending order of their keys, and an
\* excerpt range inserted before one that was inserted earlier.
C17_Witness ==
    LET new_blocks == update_excerpts_task.new_blocks
        ranges == update_excerpts_task.excerpt_ranges
    IN /\ Len(new_blocks) = MaxBlocks
       /\ \A i \in 1..(Len(new_blocks) - 1) :
             /\ BlockKey(new_blocks[i]) < BlockKey(new_blocks[i + 1])
             /\ new_blocks[i].group_id > new_blocks[i + 1].group_id
       /\ Len(ranges) = MaxBlocks
       /\ ExcerptKey(ranges[1]) < ExcerptKey(ranges[2])
       /\ ranges[1].primary = new_blocks[2].initial_range

(***************************************************************************)
(* Properties of the severity filter.                                      *)
(***************************************************************************)
\* The severities that make a group visible.
VisibleSeverities(warnings) ==
    IF warnings THEN {SeverityError, SeverityWarning} ELSE {SeverityError}

\* The groups of a list with at least one entry of a visible severity.
VisibleGroups(entries, warnings) ==
    {entries[i].group_id : i \in {j \in 1..Len(entries) :
                                    entries[j].severity \in VisibleSeverities(warnings)}}

\* C15: in a refresh that found the diagnostics changed, the groups that get
\* past the filter are exactly the groups with at least one Error entry when
\* warnings are excluded, and exactly the groups with at least one Error or
\* Warning entry when they are included, each of them once.
C15_GroupsFilteredBySeverity ==
    [][ (Compares /\ ~update_excerpts_task'.unchanged)
          => LET retained == update_excerpts_task'.retained
             IN /\ SeqToSet(retained)
                     = VisibleGroups(update_excerpts_task.buffer_snapshot.diagnostics,
                                     include_warnings)
                /\ \A i, j \in 1..Len(retained) : retained[i] = retained[j] => i = j ]_vars

\* C15 witness: groups of severities Error, Warning, Error with warnings
\* excluded: the two Error groups are displayed, in range order.
C15_Witness ==
    LET fetched == update_excerpts_task.buffer_snapshot.diagnostics
    IN /\ update_excerpts_task.pc = "finish"
       /\ ~include_warnings
       /\ Len(fetched) = 3
       /\ [i \in 1..3 |-> fetched[i].severity]
            = <<SeverityError, SeverityWarning, SeverityError>>
       /\ [i \in 1..3 |-> fetched[i].group_id] = <<0, 1, 2>>
       /\ fetched[1].range # fetched[3].range
       /\ SeqToSet(update_excerpts_task.retained) = {0, 2}
       /\ {b.block.group_id : b \in editor.display_blocks} = {0, 2}
       /\ Len(blocks) = 2

(***************************************************************************)
(* The displayed block set.                                                *)
(***************************************************************************)
\* The ids of the blocks the editor's display map shows.
DisplayedIds == {b.id : b \in editor.display_blocks}

\* C18: after any sequence of refreshes the blocks live in the editor's
\* display map are exactly those whose ids self.blocks records, one id per
\* block: no block of an earlier refresh is still displayed, none is lost.
\* Right after an accepted refresh every displayed block belongs to a group
\* that refresh retained.
C18_DisplayedBlocksAreRecorded ==
    /\ DisplayedIds = SeqToSet(blocks)
    /\ Cardinality(editor.display_blocks) = Len(blocks)
    /\ Cardinality(DisplayedIds) = Len(blocks)
    /\ (update_excerpts_task.pc = "finish" /\ ~update_excerpts_task.unchanged)
          => \A b \in editor.display_blocks :
                b.block.group_id \in SeqToSet(update_excerpts_task.retained)

\* A second accepted refresh replaced a non-empty display by a different,
\* non-empty one: the multibuffer had excerpts before it, the diagnostics
\* differed from the stored ones, and blocks are displayed after it.
C18_Witness ==
    /\ update_excerpts_task.pc = "finish"
    /\ ~update_excerpts_task.unchanged
    /\ ~update_excerpts_task.was_empty
    /\ update_excerpts_task.compared # <<>>
    /\ blocks # <<>>
    /\ Len(blocks) < Len(update_excerpts_task.compared)
    /\ DisplayedIds = SeqToSet(blocks)

(***************************************************************************)
(* Selection and focus at the display update.                              *)
(***************************************************************************)
\* A step that runs the display update of an accepted refresh.
DisplayUpdates ==
    /\ update_excerpts_task.pc \in {"spawned", "context"}
    /\ update_excerpts_task'.pc = "finish"
    /\ ~update_excerpts_task'.unchanged

\* A point lies within a range of points.
PointWithin(point, range) ==
    /\ PointCmp(range.start, point) # 1
    /\ PointCmp(point, range.end) # 1

\* C19: a display update of a refresh that found the multibuffer empty and
\* leaves it with at least one excerpt sets the selection to the start of the
\* first excerpt range's anchor range, a point of the first excerpt, and moves
\* the focus to the editor exactly when the view's own handle held it; a
\* display update of a refresh that found the multibuffer non-empty leaves
\* selection and focus as they were.
C19_SelectionOnFirstContent ==
    [][ DisplayUpdates
          => IF update_excerpts_task.was_empty /\ multibuffer' # <<>>
             THEN /\ editor'.selection
                       = <<update_excerpts_task'.excerpt_ranges[1].primary.start>>
                  /\ PointWithin(editor'.selection[1], multibuffer'[1])
                  /\ (focus' = "editor") = (focus \in {"view", "editor"})
                  /\ focus # "view" => focus' = focus
             ELSE /\ editor'.selection = editor.selection
                  /\ focus' = focus ]_vars

\* The view's own handle held the focus, a refresh filled the empty
\* multibuffer, selected the first range and moved the focus to the editor.
C19_Witness ==
    /\ update_excerpts_task.pc = "finish"
    /\ ~update_excerpts_task.unchanged
    /\ update_excerpts_task.was_empty
    /\ multibuffer # <<>>
    /\ Len(update_excerpts_task.excerpt_ranges) > 1
    /\ editor.selection = <<update_excerpts_task.excerpt_ranges[1].primary.start>>
    /\ update_excerpts_task.focused = "view"
    /\ focus = "editor"

(***************************************************************************)
(* Render on its own: the frames of the view over the summaries of lists   *)
(* with and without errors and warnings, under both settings.              *)
(***************************************************************************)
\* A variant of render that always draws the editor.
render_editor_always(current_summary, warnings_included) ==
    [child |-> "editor", label |-> "", button |-> ""]

\* Render for BufferDiagnosticsEditor: the child of the view's root element.
\* The local warning_count is the summary's count only when warnings are
\* included; the label is chosen by that local inside the branch where
\* error_count + warning_count is zero, the button by the summary's count.
render(current_summary, warnings_included) ==
    LET error_count == current_summary.error_count
        warning_count == IF warnings_included THEN current_summary.warning_count ELSE 0
    IN IF error_count + warning_count = 0
       THEN [child |-> "EmptyPane",
             label |-> IF warning_count = 0 THEN "No problems in" ELSE "No errors in",
             button |-> IF ~(current_summary.warning_count > 0) THEN ""
                        ELSE IF current_summary.warning_count = 1 THEN "Show 1 warning"
                        ELSE "Show n warnings"]
       ELSE [child |-> "editor", label |-> "", button |-> ""]

\* The window draws a frame of the view.
Render ==
    /\ hist' = [hist EXCEPT !.rendered = render(summary, include_warnings)]
    /\ UNCHANGED <<workspace, buffer, cargo_sources, global_include_warnings, focus, diagnostics,
                   blocks, summary, include_warnings, update_excerpts_task,
                   diagnostic_summary_task, cargo_diagnostics_fetch, multibuffer, editor>>

\* The lists published for the path: none, warnings only, and a warning
\* with an error.
OtherWarningEntry == Entry(8, 8, "v", SeverityWarning, TRUE, 0)
RenderLists ==
    { <<>>, <<WarningEntry>>, <<WarningEntry, OtherWarningEntry>>, <<WarningEntry, ErrorEntry>> }

InitRender ==
    /\ cargo_sources = <<>>
    /\ buffer \in {[diagnostics |-> d, offsets |-> BufferOffsets] : d \in RenderLists}
    /\ global_include_warnings \in BOOLEAN
    /\ include_warnings = global_include_warnings
    /\ focus = "other"
    /\ diagnostics = <<>>
    /\ blocks = <<>>
    /\ summary = diagnostic_summary_for_path(buffer.diagnostics)
    /\ diagnostic_summary_task = [pc |-> "done", age |-> 0]
    /\ cargo_diagnostics_fetch = DefaultFetchState
    /\ multibuffer = <<>>
    /\ editor = [display_blocks |-> {}, selection |-> <<>>,
                 max_severity |-> max_diagnostics_severity(include_warnings)]
    /\ update_excerpts_task = RefreshTask(FALSE)
    /\ hist = InitHist
    /\ workspace = DefaultWorkspace

\* The handlers that write what render reads, self.summary and
\* self.include_warnings, and the frames.  The button of the empty state
\* calls toggle_warnings, as the toolbar does.
NextRender ==
    \/ \E d \in RenderLists : DiagnosticsUpdated(d)
    \/ SummaryTimerElapsed
    \/ ToggleWarnings
    \/ Render

SpecRender == InitRender /\ [][NextRender]_vars

\* The latest frame shows the current summary and setting.
FrameIsCurrent ==
    /\ hist.rendered.child # "none"
    /\ hist.rendered = render(summary, include_warnings)

\* The summary counts no error and some warning while warnings are excluded.
WarningsHidden ==
    /\ summary.error_count = 0
    /\ summary.warning_count > 0
    /\ ~include_warnings

\* C20 as claimed: a frame drawn while the summary has no error and only
\* hidden warnings is the empty state with the button that reveals them, and
\* its text differs from the text drawn for a summary without any problem.
C20_EmptyStateDistinguishes ==
    (FrameIsCurrent /\ WarningsHidden)
        => /\ hist.rendered.child = "EmptyPane"
           /\ hist.rendered.button # ""
           /\ hist.rendered.label
                 # render([error_count |-> 0, warning_count |-> 0], include_warnings).label

\* What the frames do satisfy: the empty state is drawn exactly when the
\* counts of the summary that pass the setting are zero, always with the
\* text of "no problems", and the button is drawn exactly when the summary
\* counts a warning.
EmptyStateAsRendered ==
    FrameIsCurrent
        => /\ (hist.rendered.child = "EmptyPane")
                = (summary.error_count = 0 /\ (include_warnings => summary.warning_count = 0))
           /\ hist.rendered.child = "EmptyPane"
                => /\ hist.rendered.label = "No problems in"
                   /\ (hist.rendered.button # "") = (summary.warning_count > 0)

(***************************************************************************)
(* A view of a path without diagnostics, with and without a cargo source.  *)
(***************************************************************************)
InitEmpty ==
    /\ \E sources \in {<<>>, <<"A">>} : InitView(sources)
    /\ buffer.diagnostics = <<>>

\* Every handler of the view; the language server publishes nothing but
\* empty lists for the path.
NextEmpty ==
    \/ DiagnosticsUpdated(<<>>)
    \/ DiskBasedDiagnosticsFinished
    \/ SummaryTimerElapsed
    \/ RefreshTimerElapsed
    \/ \E ok \in BOOLEAN : OpenBufferDone(ok)
    \/ UpdateExcerptsCompare
    \/ RefreshFinish
    \/ FocusView
    \/ FocusEditor
    \/ FocusOut
    \/ ToggleWarnings
    \/ FetchTaskStart
    \/ \E id \in FetchIds, source \in Sources, ok \in BOOLEAN : FlycheckDone(id, source, ok)
    \/ FetchTaskFinish
    \/ Render

SpecEmpty == InitEmpty /\ [][NextEmpty]_vars

\* No task of the view is waiting or running: the refresh task has ended
\* (its slot is cleared, or it ended on a failed open_buffer), the summary
\* task has run, no fetch task is held.
Quiescent ==
    /\ update_excerpts_task.pc \in {"none", "failed"}
    /\ diagnostic_summary_task.pc = "done"
    /\ cargo_diagnostics_fetch.fetch_task.pc = "none"

\* C21: for a path without diagnostics, once the tasks of the view have run
\* the frame is the empty state with the text "No problems in <name>", and
\* the view shows no excerpt and no block.
C21_EmptyTarget ==
    Quiescent
        => /\ FrameIsCurrent
                => /\ hist.rendered.child = "EmptyPane"
                   /\ hist.rendered.label = "No problems in"
           /\ multibuffer = <<>>
           /\ blocks = <<>>
           /\ editor.display_blocks = {}

\* The refresh task spawned at construction has run and cleared its slot, and
\* a frame was drawn after it.
C21_Witness ==
    /\ Quiescent
    /\ cargo_sources = <<>>
    /\ update_excerpts_task.pc = "none"
    /\ FrameIsCurrent
    /\ hist.rendered.label = "No problems in"

(***************************************************************************)
(* The tab of the view.                                                    *)
(***************************************************************************)
\* A variant of tab_content that leaves the warnings out while they are
\* excluded, as render does.
tab_content_filtered(current_summary, warnings_included) ==
    LET error_count == current_summary.error_count
        warning_count == IF warnings_included THEN current_summary.warning_count ELSE 0
    IN [check |-> error_count = 0 /\ warning_count = 0,
        error_count |-> error_count, warning_count |-> warning_count]

\* Item::tab_content: the check icon without any problem, and the counts
\* of self.summary, each shown when it is not zero.  The setting is not read.
tab_content(current_summary, warnings_included) ==
    LET error_count == current_summary.error_count
        warning_count == current_summary.warning_count
    IN [check |-> error_count = 0 /\ warning_count = 0,
        error_count |-> error_count, warning_count |-> warning_count]

\* The numbers of entries of a severity in a list.
CountOf(entries, severity) ==
    Cardinality({i \in 1..Len(entries) : entries[i].severity = severity})

\* A display update of a refresh that read the list of one warning and one
\* error while warnings were excluded.
DisplaysErrorOfTwo ==
    /\ DisplayUpdates
    /\ update_excerpts_task.buffer_snapshot.diagnostics = <<WarningEntry, ErrorEntry>>
    /\ update_excerpts_task.max_severity = max_diagnostics_severity(FALSE)

InitToggle ==
    /\ InitView(<<>>)
    /\ buffer.diagnostics = <<WarningEntry, ErrorEntry>>
    /\ ~global_include_warnings

\* The view shows the file: its multibuffer has the Error's excerpt.
ShowsFile == multibuffer # <<>>

\* Project events for the path, none of them after the toggle.
EventBeforeToggle ==
    /\ ~include_warnings
    /\ \/ DiagnosticsUpdated(buffer.diagnostics)
       \/ DiskBasedDiagnosticsFinished

\* The toggle from errors-only, on a view that shows the file.
ToggleOn ==
    /\ ~include_warnings
    /\ ShowsFile
    /\ ToggleWarnings

\* The steps of the view's tasks; the buffer opens.
TaskStep ==
    \/ SummaryTimerElapsed
    \/ RefreshTimerElapsed
    \/ OpenBufferDone(TRUE)
    \/ UpdateExcerptsCompare
    \/ UpdateExcerptsApply
    \/ RefreshFinish

NextToggle ==
    \/ EventBeforeToggle
    \/ ToggleOn
    \/ TaskStep
    \/ FocusView
    \/ FocusEditor

SpecToggle == InitToggle /\ [][NextToggle]_vars

\* The foreground executor runs every task that is ready, and timers elapse.
SpecToggleLive == SpecToggle /\ WF_vars(TaskStep)

\* The Warning's excerpt and block are displayed.
WarningDisplayed ==
    LET region == context_range_for_entry(RangeToPoint(WarningEntry.range, buffer),
                                          DEFAULT_MULTIBUFFER_CONTEXT)
    IN /\ \E i \in 1..Len(multibuffer) :
             PointWithin(region.start, multibuffer[i]) /\ PointWithin(region.end, multibuffer[i])
       /\ \E b \in editor.display_blocks : b.block.severity = SeverityWarning

\* C23 as claimed: after the toggle to include warnings, with no further
\* project event, the Warning's excerpt is eventually displayed whatever the
\* refresh task was doing when the toggle came, and the summary keeps its
\* counts.
C23_ToggleTakesEffect ==
    /\ include_warnings ~> WarningDisplayed
    /\ [](summary = [error_count |-> 1, warning_count |-> 1])

(***************************************************************************)
(* The workspace: deploy, the other buffer diagnostics views it opens, and *)
(* the toggles of any of the views.                                        *)
(***************************************************************************)
\* BufferDiagnosticsEditor::new for another path, as far as the workspace
\* sees it.
NewView(project_path, warnings_included) ==
    [project_path |-> project_path, include_warnings |-> warnings_included,
     max_severity |-> max_diagnostics_severity(warnings_included)]

\* workspace.activate_item / add_item_to_active_pane: the view becomes the
\* active item.
Activated(project_path) == [kind |-> "diagnostics", project_path |-> project_path]

\* The paths of the open buffer diagnostics views, items_of_type.
OpenPaths(w) == <<ViewPath>> \o [i \in DOMAIN w.items |-> w.items[i].project_path]

\* A variant of deploy that opens a new view whenever an editor with a
\* project path is active.
deploy_always_new(w, global_value, setting) ==
    LET project_path == IF w.active_item.kind = "editor"
                        THEN w.active_item.project_path ELSE "none"
    IN IF project_path = "none" THEN w
       ELSE [w EXCEPT
               !.items = Append(@, NewView(project_path,
                                           IF w.global_is_set THEN global_value ELSE setting)),
               !.active_item = Activated(project_path)]

\* BufferDiagnosticsEditor::deploy on the workspace.  setting is what
\* ProjectSettings holds when the global is not set.
deploy(w, global_value, setting) ==
    LET project_path == IF w.active_item.kind = "editor"
                        THEN w.active_item.project_path ELSE "none"
    IN IF project_path = "none" THEN w
       ELSE IF \E i \in DOMAIN OpenPaths(w) : OpenPaths(w)[i] = project_path
       THEN [w EXCEPT !.active_item = Activated(project_path)]
       ELSE [w EXCEPT
               !.items = Append(@, NewView(project_path,
                                           IF w.global_is_set THEN global_value ELSE setting)),
               !.active_item = Activated(project_path)]

\* The deploy action is dispatched.
Deploy(setting) ==
    /\ workspace' = deploy(workspace, global_include_warnings, setting)
    /\ Len(workspace'.items) <= MaxViews
    /\ UNCHANGED <<buffer, cargo_sources, global_include_warnings, focus, diagnostics,
                   blocks, summary, include_warnings, update_excerpts_task,
                   diagnostic_summary_task, cargo_diagnostics_fetch, multibuffer, editor,
                   hist>>

\* The user activates an editor, of a path of the project or without one.
ActivateEditor(project_path) ==
    /\ workspace' = [workspace EXCEPT
          !.active_item = [kind |-> "editor", project_path |-> project_path]]
    /\ UNCHANGED <<buffer, cargo_sources, global_include_warnings, focus, diagnostics,
                   blocks, summary, include_warnings, update_excerpts_task,
                   diagnostic_summary_task, cargo_diagnostics_fetch, multibuffer, editor,
                   hist>>

\* The user closes another buffer diagnostics view.
CloseItem(i) ==
    /\ i \in DOMAIN workspace.items
    /\ workspace' = [workspace EXCEPT
          !.items = SubSeq(@, 1, i - 1) \o SubSeq(@, i + 1, Len(@)),
          !.active_item = IF @ = Activated(workspace.items[i].project_path)
                          THEN [kind |-> "none", project_path |-> "none"] ELSE @]
    /\ UNCHANGED <<buffer, cargo_sources, global_include_warnings, focus, diagnostics,
                   blocks, summary, include_warnings, update_excerpts_task,
                   diagnostic_summary_task, cargo_diagnostics_fetch, multibuffer, editor,
                   hist>>

\* toggle_warnings of another open view.
ToggleWarningsElsewhere(i) ==
    /\ i \in DOMAIN workspace.items
    /\ IncludeWarningsSet(~workspace.items[i].include_warnings)

\* The modelled view right after deploy opened it, with the global set by
\* an earlier toggle or not set.
InitWorkspace ==
    /\ cargo_sources = <<>>
    /\ buffer \in {[diagnostics |-> d, offsets |-> BufferOffsets] : d \in DiagLists}
    /\ global_include_warnings \in BOOLEAN
    /\ include_warnings = global_include_warnings
    /\ focus = "other"
    /\ diagnostics = <<>>
    /\ blocks = <<>>
    /\ summary = diagnostic_summary_for_path(buffer.diagnostics)
    /\ diagnostic_summary_task = [pc |-> "done", age |-> 0]
    /\ cargo_diagnostics_fetch = DefaultFetchState
    /\ multibuffer = <<>>
    /\ editor = [display_blocks |-> {}, selection |-> <<>>,
                 max_severity |-> max_diagnostics_severity(include_warnings)]
    /\ update_excerpts_task = RefreshTask(FALSE)
    /\ hist = InitHist
    /\ \E is_set \in BOOLEAN :
          workspace = [DefaultWorkspace EXCEPT !.global_is_set = is_set]

NextWorkspace ==
    \/ \E project_path \in Paths \cup {"none"} : ActivateEditor(project_path)
    \/ \E setting \in BOOLEAN : Deploy(setting)
    \/ \E i \in 1..MaxViews : CloseItem(i)
    \/ ToggleWarnings
    \/ \E i \in 1..MaxViews : ToggleWarningsElsewhere(i)

SpecWorkspace == InitWorkspace /\ [][NextWorkspace]_vars

\* The include_warnings fields of the open views, the modelled one first.
ViewFlags == <<include_warnings>> \o [i \in DOMAIN workspace.items |->
                                        workspace.items[i].include_warnings]

\* The maximum severities of the editors of the open views.
ViewSeverities == <<editor.max_severity>> \o [i \in DOMAIN workspace.items |->
                                               workspace.items[i].max_severity]

\* A step of toggle_warnings, of whichever view.
Toggles == ToggleWarnings \/ \E i \in 1..MaxViews : ToggleWarningsElsewhere(i)

\* What a toggle does: the global becomes the negation of the toggling
\* view's field, and the field and the editor's maximum severity of every
\* open view equal the global afterwards.
TogglesReachEveryView ==
    [][ Toggles
          => /\ \/ global_include_warnings' = ~include_warnings
                \/ \E i \in DOMAIN workspace.items :
                      global_include_warnings' = ~workspace.items[i].include_warnings
             /\ workspace'.global_is_set
             /\ \A i \in DOMAIN ViewFlags' :
                   /\ ViewFlags'[i] = global_include_warnings'
                   /\ ViewSeverities'[i] = max_diagnostics_severity(global_include_warnings') ]_vars

\* The open views have the same include_warnings.
ViewsAgree == \A i, j \in DOMAIN ViewFlags : ViewFlags[i] = ViewFlags[j]

\* C24 as claimed: a toggle sets the global to the negation of the toggling
\* view's field and leaves every open view equal to the global, and two
\* consecutive toggles restore the value of every view.  The second toggle
\* undoes the first in the global, and the first leaves every view with the
\* negation of the toggling view's value, so every view is restored exactly
\* when the open views agree before the first toggle: the views agree in
\* every state.
C24_SharedCell == TogglesReachEveryView /\ []ViewsAgree

\* C25: deploy without an active editor that has a project path changes
\* nothing; with one it activates the open view of the path, or opens a
\* view when there is none; no two open views show the same path.
C25_DeployOpensOrFocuses ==
    /\ [][ (\E setting \in BOOLEAN : Deploy(setting))
            => LET project_path == IF workspace.active_item.kind = "editor"
                                   THEN workspace.active_item.project_path ELSE "none"
                   open == {OpenPaths(workspace)[i] : i \in DOMAIN OpenPaths(workspace)}
               IN IF project_path = "none" THEN workspace' = workspace
                  ELSE /\ workspace'.active_item = Activated(project_path)
                       /\ IF project_path \in open
                          THEN workspace'.items = workspace.items
                          ELSE /\ Len(workspace'.items) = Len(workspace.items) + 1
                               /\ SubSeq(workspace'.items, 1, Len(workspace.items))
                                     = workspace.items
                               /\ workspace'.items[Len(workspace'.items)].project_path
                                     = project_path ]_vars
    /\ [](\A i, j \in DOMAIN OpenPaths(workspace) :
             OpenPaths(workspace)[i] = OpenPaths(workspace)[j] => i = j)

\* Deploy has opened two views beside the modelled one and then activated
\* the first of them again.
C25_Witness ==
    /\ Len(workspace.items) = 2
    /\ workspace.active_item = Activated(workspace.items[1].project_path)

(***************************************************************************)
(* The summary against the stored diagnostics.                             *)
(***************************************************************************)
\* Neither a summary task nor a refresh task is pending.
NoSummaryOrRefreshPending ==
    /\ diagnostic_summary_task.pc = "done"
    /\ update_excerpts_task.pc = "none"

\* C26 as claimed: whenever no summary task and no refresh task is pending,
\* the counts of self.summary are the numbers of Error and of Warning entries
\* of self.diagnostics.
C26_SummaryMatchesSnapshot ==
    NoSummaryOrRefreshPending
        => /\ summary.error_count = CountOf(diagnostics, SeverityError)
           /\ summary.warning_count = CountOf(diagnostics, SeverityWarning)

\* No task is pending and no notification is deferred, the summary counts
\* the entries of the path, and the stored diagnostics are not those of the
\* path: a notification or a toggle met a refresh in flight.
SnapshotBehindSummary ==
    /\ NoSummaryOrRefreshPending
    /\ hist.defer = "no"
    /\ summary = diagnostic_summary_for_path(buffer.diagnostics)
    /\ CountOf(diagnostics, SeverityError) # summary.error_count

(***************************************************************************)
(* The single refresh task.                                                *)
(***************************************************************************)
\* A step of a handler that calls update_stale_excerpts:
\* DiskBasedDiagnosticsFinished, DiagnosticsUpdated, the editor's blur,
\* focus_out, the IncludeWarnings observer.
CallsUpdateStaleExcerpts ==
    \/ DiskBasedDiagnosticsFinished
    \/ (~ContainsFocused /\ Notified)
    \/ FocusEditor
    \/ FocusOut
    \/ ToggleWarnings

\* C27: a refresh task is spawned only into an empty slot, so the view never
\* has two; a handler that calls update_stale_excerpts while the slot is set
\* leaves the task, the blocks, the excerpts, the display and the summary as
\* they are, and DiskBasedDiagnosticsFinished, which does nothing else,
\* leaves every field of the view as it is.
C27_SingleRefreshTask ==
    [][ /\ (update_excerpts_task'.pc = "timer" /\ update_excerpts_task.pc # "timer")
            => update_excerpts_task.pc = "none"
        /\ (update_excerpts_task.pc # "none" /\ CallsUpdateStaleExcerpts)
            => /\ Locals(update_excerpts_task') = Locals(update_excerpts_task)
               /\ UNCHANGED <<blocks, multibuffer, summary, cargo_diagnostics_fetch>>
               /\ editor'.display_blocks = editor.display_blocks
               /\ editor'.selection = editor.selection
        /\ (update_excerpts_task.pc # "none" /\ DiskBasedDiagnosticsFinished)
            => UNCHANGED <<diagnostics, include_warnings, editor, focus,
                           diagnostic_summary_task>> ]_vars

\* The task spawned by a notification has run update_excerpts once and
\* displayed, after a later call of update_stale_excerpts found it in the slot.
C27_Witness ==
    /\ update_excerpts_task.pc = "finish"
    /\ update_excerpts_task.burst >= 2
    /\ update_excerpts_task.runs = 1
    /\ ~update_excerpts_task.unchanged

(***************************************************************************)
(* Events of other paths.  Every project path sends DiagnosticsUpdated to  *)
(* the one subscription of the view.                                       *)
(***************************************************************************)
NextPaths ==
    \/ \E d \in DiagLists : DiagnosticsUpdated(d)
    \/ DiagnosticsUpdatedElsewhere
    \/ DiskBasedDiagnosticsFinished
    \/ SummaryTimerElapsed
    \/ RefreshTimerElapsed
    \/ \E ok \in BOOLEAN : OpenBufferDone(ok)
    \/ UpdateExcerptsCompare
    \/ UpdateExcerptsApply
    \/ RefreshFinish
    \/ FocusView
    \/ FocusOut

SpecPaths == Init /\ [][NextPaths]_vars

\* C28: the handler of a DiagnosticsUpdated event for another path leaves
\* both task handles, the stored diagnostics, the summary, the blocks, the
\* excerpts and the editor as they are.
C28_OtherPathsIgnored ==
    [][DiagnosticsUpdatedElsewhere =>
          UNCHANGED <<diagnostic_summary_task, update_excerpts_task, diagnostics,
                      summary, blocks, multibuffer, editor, include_warnings,
                      cargo_diagnostics_fetch>>]_vars

\* An event for another path has been handled, and the view is at rest with
\* excerpts on display: no summary timer runs and the refresh slot is empty.
C28_Witness ==
    /\ hist.elsewhere
    /\ diagnostic_summary_task.pc = "done"
    /\ update_excerpts_task.pc = "none"
    /\ multibuffer # <<>>

(***************************************************************************)
(* A refresh that is skipped and a refresh that is accepted.               *)
(***************************************************************************)
\* C29: the comparison of a refresh either finds the fetched diagnostics
\* unchanged, and then the stored diagnostics, the excerpts, the blocks and
\* the editor with its selection are as before and the next step of the task
\* empties the slot, again without touching them; or it finds them changed,
\* and then the stored diagnostics are the whole fetched list of the
\* snapshot, whatever the severity threshold.
C29_SkippedOrAccepted ==
    [][ /\ Compares =>
              IF update_excerpts_task'.unchanged
              THEN /\ update_excerpts_task'.pc = "finish"
                   /\ UNCHANGED <<diagnostics, multibuffer, blocks, editor, focus>>
              ELSE /\ diagnostics' = update_excerpts_task.buffer_snapshot.diagnostics
                   /\ diagnostics' # diagnostics
        /\ (/\ update_excerpts_task.pc = "finish"
            /\ update_excerpts_task.unchanged
            /\ update_excerpts_task'.pc # "finish")
              => /\ update_excerpts_task' = NoTask
                 /\ UNCHANGED <<diagnostics, multibuffer, blocks, editor, focus>> ]_vars

\* A refresh has been skipped while the view shows the error only and holds
\* the warning too: the list was stored whole by an accepted refresh under
\* the error threshold, and the skipped one has left view and display alone.
C29_Witness ==
    /\ update_excerpts_task.pc = "finish"
    /\ update_excerpts_task.unchanged
    /\ update_excerpts_task.max_severity = max_diagnostics_severity(FALSE)
    /\ ~include_warnings
    /\ diagnostics = <<WarningEntry, ErrorEntry>>
    /\ Len(blocks) = 1
    /\ multibuffer # <<>>

(***************************************************************************)
(* The hand-off of the focus between the view and its editor.              *)
(***************************************************************************)
\* The places the focus can arrive at inside the view.
FocusTargets == {"view", "editor"}

\* C30: in every state, wherever the focus arrives, the handlers settle
\* after at most one further move of the focus: from the view to the editor
\* exactly when the multibuffer has excerpts, from the editor to the view
\* exactly when it has none.  The place they settle at is left alone by both
\* handlers, and it is the editor only if the multibuffer has excerpts.  The
\* steps that take the focus into the view end at such a place.
C30_FocusSettles ==
    [][ /\ \A target \in FocusTargets :
              LET end == HandOff(target, MultibufferIsEmpty, MaxHandOff)
              IN /\ end.settled
                 /\ end.moves <= 1
                 /\ end.focus = (IF MultibufferIsEmpty THEN "view" ELSE "editor")
                 /\ focus_in(end.focus, MultibufferIsEmpty) = end.focus
                 /\ editor_focused(end.focus, MultibufferIsEmpty) = end.focus
        /\ (FocusView \/ FocusEditor)
              => /\ focus' \in FocusTargets
                 /\ focus' = "editor" <=> multibuffer' # <<>>
                 /\ HandOffStep(focus', multibuffer' = <<>>) = focus' ]_vars

\* The focus has been handed to the editor over excerpts: the display update
\* of the refresh in the slot ran while the focus was outside the view, and
\* the focus has come in since.
C30_Witness ==
    /\ update_excerpts_task.pc = "finish"
    /\ update_excerpts_task.focused = "other"
    /\ ~update_excerpts_task.unchanged
    /\ focus = "editor"
    /\ multibuffer # <<>>

(***************************************************************************)
(* One refresh of an empty view over diagnostics whose ranges nest: the    *)
(* placement of the blocks.                                                *)
(***************************************************************************)
\* Entries near the start of the buffer and further down, some ending
\* rows after they start; each is primary and alone in its group.
PlacedEntries ==
    {Entry(start, end, "e", severity, TRUE, group_id) :
        start \in {2, 3, 7}, end \in {4, 7},
        severity \in {SeverityError, SeverityWarning},
        group_id \in 0..(MaxLen - 1)}

PlacedLists ==
    {entries \in UNION {[1..n -> PlacedEntries] : n \in 0..MaxLen} :
        /\ \A i \in 1..Len(entries) :
              /\ entries[i].range.start <= entries[i].range.end
              /\ entries[i].group_id = i - 1
        /\ InRangeOrder(entries, [offsets |-> BufferOffsets])}

InitPlacement ==
    /\ cargo_sources = <<>>
    /\ global_include_warnings \in BOOLEAN
    /\ include_warnings = global_include_warnings
    /\ focus = "other"
    /\ buffer \in {[diagnostics |-> d, offsets |-> BufferOffsets] : d \in PlacedLists}
    /\ diagnostics = <<>>
    /\ blocks = <<>>
    /\ summary = diagnostic_summary_for_path(buffer.diagnostics)
    /\ diagnostic_summary_task = [pc |-> "done", age |-> 0]
    /\ cargo_diagnostics_fetch = DefaultFetchState
    /\ multibuffer = <<>>
    /\ editor = [display_blocks |-> {}, selection |-> <<>>,
                 max_severity |-> max_diagnostics_severity(include_warnings)]
    /\ hist = InitHist
    /\ workspace = DefaultWorkspace
    /\ update_excerpts_task =
          [RefreshTask(FALSE) EXCEPT
              !.pc = "spawned", !.was_empty = TRUE, !.buffer_snapshot = buffer,
              !.max_severity = max_diagnostics_severity(include_warnings), !.runs = 1]

SpecPlacement == InitPlacement /\ [][NextBlocks]_vars

\* C31: every displayed block is placed at the start of the range of its
\* own diagnostic.
C31_BlockAtOwnRange ==
    \A displayed \in editor.display_blocks :
        displayed.placement = displayed.block.initial_range.start

\* The display update that breaks it: two blocks, the first starting before
\* the second and ending after it, whose context ranges both start at the
\* first row of the buffer; the excerpt range of the second is sorted
\* before the excerpt range of the first.
BlocksAtEachOthersRange ==
    /\ update_excerpts_task.pc = "finish"
    /\ Len(blocks) = 2
    /\ \A displayed \in editor.display_blocks :
          displayed.placement # displayed.block.initial_range.start

\* What holds of the placement: the i-th block of the sorted block list is
\* placed at the start of the primary range of the i-th excerpt range of the
\* sorted excerpt range list, and the primary ranges of that list are the
\* ranges of the blocks, each as often as it occurs among the blocks.
PlacementFollowsExcerptOrder ==
    update_excerpts_task.pc = "finish" =>
        LET excerpt_ranges == update_excerpts_task.excerpt_ranges
        IN /\ Cardinality(editor.display_blocks) = Len(excerpt_ranges)
           /\ \A displayed \in editor.display_blocks :
                 \E i \in 1..Len(excerpt_ranges) :
                     /\ displayed.id = blocks[i]
                     /\ displayed.placement = excerpt_ranges[i].primary.start
                     /\ \E other \in editor.display_blocks :
                           other.block.initial_range = excerpt_ranges[i].primary

(***************************************************************************)
(* The display against the stored diagnostics.                             *)
(***************************************************************************)
\* The blocks update_excerpts builds from a list of diagnostics under a
\* warnings setting, for some iteration order of the groups.
BlocksBuiltFrom(entries, warnings_included) ==
    {BuildBlocks(<<>>, order, entries, buffer, max_diagnostics_severity(warnings_included)) :
        order \in Orders(GroupIds(entries))}

\* The display is the one update_excerpts builds from the stored
\* diagnostics under the current include_warnings.
DisplayBuiltFromStored ==
    \E new_blocks \in BlocksBuiltFrom(diagnostics, include_warnings) :
        LET excerpt_ranges == BuildExcerptRanges(<<>>, new_blocks)
            anchor_ranges == AnchorRanges(excerpt_ranges)
        IN /\ Len(blocks) = Len(new_blocks)
           /\ editor.display_blocks =
                 {[id |-> blocks[i], placement |-> anchor_ranges[i].start,
                   block |-> new_blocks[i]] : i \in 1..Len(new_blocks)}
           /\ multibuffer = MergeExcerptRanges(<<>>, excerpt_ranges)

\* C32: whenever update_excerpts_task is unset, the displayed blocks and
\* the excerpts are those built from the stored diagnostics under the
\* current include_warnings.
C32_DisplayMatchesSnapshot ==
    update_excerpts_task.pc = "none" => DisplayBuiltFromStored

\* A refresh overtaken by a toggle: the view is idle and includes warnings,
\* it has stored the warning and the error, and it displays one block, built
\* under the threshold the refresh read before the toggle.
DisplayBehindToggle ==
    /\ update_excerpts_task.pc = "none"
    /\ include_warnings
    /\ diagnostics = <<WarningEntry, ErrorEntry>>
    /\ Len(blocks) = 1
    /\ Cardinality(editor.display_blocks) = 1

(***************************************************************************)
(* Regrouped diagnostics.                                                  *)
(***************************************************************************)
\* Two lists of one length put some position into different groups.
GroupsDiffer(stored, fetched) ==
    /\ Len(stored) = Len(fetched)
    /\ \E i \in 1..Len(stored) : stored[i].group_id # fetched[i].group_id

\* C33: when the stored list and the fetched list agree pairwise on
\* message, severity, is_primary and the offsets of the range and differ in
\* the group of some entry, the comparison reports unchanged; the refresh
\* keeps the stored list with its old groups and leaves the blocks, the
\* excerpts and the editor alone.
C33_RegroupingUnchanged ==
    [][ (/\ Compares
         /\ TuplesAgree
         /\ GroupsDiffer(diagnostics, update_excerpts_task.buffer_snapshot.diagnostics))
          => /\ update_excerpts_task'.unchanged
             /\ update_excerpts_task'.pc = "finish"
             /\ diagnostics' = diagnostics
             /\ diagnostics' # update_excerpts_task.buffer_snapshot.diagnostics
             /\ UNCHANGED <<blocks, multibuffer, editor>> ]_vars

\* Two lists of MaxLen entries that are equal but for the group of an entry
\* have been compared and found unchanged.
C33_Witness ==
    LET fetched == update_excerpts_task.buffer_snapshot.diagnostics
    IN /\ update_excerpts_task.pc = "finish"
       /\ update_excerpts_task.unchanged
       /\ Len(diagnostics) = MaxLen
       /\ GroupsDiffer(diagnostics, fetched)
       /\ \A i \in 1..Len(diagnostics) :
             [diagnostics[i] EXCEPT !.group_id = fetched[i].group_id] = fetched[i]

====
